---- MODULE Spec2Model ----
(***************************************************************************)
(* State-machine model of the AgenteIA orchestration agent:                *)
(*   MemoryContext      (app/agent/core/memory_context.py)                 *)
(*   SemanticSelector   (app/agent/core/semantic_selector.py)              *)
(*   ReasoningEngine    (app/agent/core/reasoning_engine.py)               *)
(*   ToolManager        (app/agent/core/tool_manager.py)                   *)
(*   AgentCore          (app/agent/core/agent_core.py)                     *)
(* Each component has its own specification (SpecMemory, SpecDecide, ...)  *)
(* over the shared variables; a specification leaves the variables of the  *)
(* other components at their constructed values.                           *)
(***************************************************************************)
EXTENDS Integers, Sequences, FiniteSets, TLC

VARIABLES
    \* MemoryContext
    max_messages,      \* MemoryContext.max_messages
    messages,          \* MemoryContext._messages
    added,             \* history: every message passed to add_message, in order
    \* SemanticSelector.decide
    ranked,            \* the argument of the last decide call (scores, in list order)
    decision,          \* the route it returned ("none" before the first call)
    best,              \* the tool it returned: index into ranked, 0 for None
    \* ToolManager
    tm_max_retries,    \* ToolManager.max_retries
    enable_validation, \* ToolManager.enable_validation
    registered_tools,  \* name -> kind of handler
    tool_schemas,      \* name -> schema
    execution_stats,   \* name -> counters
    schema_cache,      \* the lru_cache of get_tool_schema
    gs_name,           \* argument of the get_tool_schema call that just returned
    gs_result,         \* and the value it returned
    \* one execute_tool call
    ex_pc,             \* "idle", "attempt" (in the retry loop) or "returned"
    ex_tool,           \* tool_name
    ex_args,           \* arguments, as normalize_arguments left them
    ex_retry_count,    \* retry_count
    ex_invocations,    \* history: times the handler was called in this call
    ex_log,            \* history: how each attempt ended
    ex_sleeps,         \* history: the waits between attempts, in units of 0.5 s
    ex_result,         \* the ExecutionResult returned
    ex_stats_before,   \* history: execution_stats when the call started
    tm_calls,          \* execute_tool calls started
    \* AgentCore, one process_message call
    ag_pc,             \* "idle", "loop", "finish" (after the loop) or "returned"
    status,            \* AgentCore.status
    loop_counter,      \* loop_counter
    tool_exec_count,   \* tool_exec_count
    response,          \* response
    session_stats,     \* AgentCore.session_stats: messages_processed and errors
    ag_return,         \* the AgentResponse process_message returned
    ag_raised,         \* history: the call went through its except branch
    ag_iterations,     \* history: _perform_reasoning calls of this message
    ag_stats_before,   \* history: session_stats when the call started
    ag_added_before,   \* history: messages appended to the memory before the call
    \* ReasoningEngine
    ri_kinds,          \* the schemas of the tool catalog
    ri_call,           \* the inputs of the last analyze_intent call
    ri_result,         \* the ReasoningResult it returned
    ri_seen,           \* history: the actions analyze_intent has returned
    \* SemanticSelector.rank_tools / rank_tools_with_fallback
    rk_initialized,    \* SemanticSelector._initialized
    rk_query,          \* query
    rk_tools,          \* the names of registry.tools
    rk_semantic,       \* the ranking the embedding index gives for the query
    rk_tfidf,          \* the ranking registry.find_top_tools gives for it
    rk_entry,          \* the method that was called
    rk_stack,          \* the call stack: the frames of the two methods
    rk_ret,            \* the value the frame just popped returned, if any
    rk_pc,             \* "idle", "running", "returned" or "raised"
    rk_result,         \* the ranking returned to the caller
    rk_embed_failed,   \* history: _embed_text gave no embedding in this call
    \* MCPClient.get_available_tools, one call
    mc_pc,             \* "idle", "attempt" (in the retry loop) or "returned"
    mc_attempt,        \* attempt, the loop variable
    mc_log,            \* history: how each attempt ended
    mc_delays,         \* history: the seconds slept between attempts
    mc_result,         \* the list returned
    mc_calls,          \* get_available_tools calls started
    \* AgentCore: one TOOL_CALL iteration, the dependencies and the tool
    dp_pc,             \* "idle", "gather" (awaiting the dependencies), "gathered",
                       \* "tool" (the selected tool's handler runs) or "done"
    dp_listed,         \* dependency_map.get(tool_name) or []
    dp_registered,     \* the names in tool_manager.registered_tools
    dp_tasks,          \* task of each dependency -> "pending", "running" or its status
    dp_args,           \* the arguments each dependency was executed with
    dp_snapshot,       \* history: dp_tasks when the selected tool's handler started
    \* client_mcp._ensure_agent, called by concurrent requests
    ea_agent,          \* _agent: 0 is None, n the n-th AgentCore created
    ea_tools_initialized, \* _tools_initialized
    ea_created,        \* history: AgentCore instances created
    ea_pc,             \* per request: "idle", "initializing", "reinitializing",
                       \* "returned" or "raised"
    ea_ret,            \* per request: the agent its last call returned (0: none)
    ea_calls,          \* _ensure_agent calls started
    \* api.leer_consulta (POST /query)
    api_body,          \* the request body of the last request
    api_agent,         \* what client_main did for it ("not_called" when not awaited)
    api_response,      \* the HTTP response
    api_served,        \* requests served
    \* AgentCore._perform_reasoning, semantic fallback
    sf_ranked,         \* what rank_tools(top_k=1) returned
    sf_schema,         \* the schema of the top tool
    sf_extracted,      \* what extract_arguments returned
    sf_result,         \* the ReasoningResult of the fallback
    sf_runs,           \* fallbacks run
    \* ToolManager._validate_arguments and normalize_arguments as functions
    va_schema,         \* the schema registered for the tool
    va_arguments,      \* the arguments given
    va_error,          \* what _validate_arguments returned ("" for None)
    va_normalized,     \* what normalize_arguments returned
    va_again,          \* normalize_arguments of va_normalized
    va_done,           \* "no", "validated" or "normalized"
    \* server_mcp._http_request
    hr_pc,             \* "idle", "request" (in the while loop), "returned" or "raised"
    hr_max_retries,    \* HTTP_MAX_RETRIES read by the call
    hr_attempt,        \* attempt
    hr_idempotent,     \* the call has an idempotency key (POST with a body)
    hr_cached,         \* _recent_post_cache holds an entry for the key
    hr_outcomes,       \* history: how each client.request of the call ended
    hr_sleeps,         \* history: backoff sleeps of the call
    hr_result,         \* what the call returned
    hr_calls,          \* calls made
    \* SemanticRegistry
    sr_tools,          \* tools: name -> text_content of its ToolDefinition
    sr_tool_names,     \* _tool_names
    sr_tool_texts,     \* _tool_texts
    sr_ops             \* register_tool and remove_tool calls made

memVars == <<max_messages, messages, added>>
decVars == <<ranked, decision, best>>
tmVars == <<tm_max_retries, enable_validation, registered_tools, tool_schemas,
           execution_stats, schema_cache, gs_name, gs_result>>
exVars == <<ex_pc, ex_tool, ex_args, ex_retry_count, ex_invocations,
           ex_log, ex_sleeps, ex_result, ex_stats_before, tm_calls>>
agVars == <<ag_pc, status, loop_counter, tool_exec_count, response, session_stats,
           ag_return, ag_raised, ag_iterations, ag_stats_before,
           ag_added_before>>
riVars == <<ri_kinds, ri_call, ri_result, ri_seen>>
rkVars == <<rk_initialized, rk_query, rk_tools, rk_semantic, rk_tfidf, rk_entry,
           rk_stack, rk_ret, rk_pc, rk_result, rk_embed_failed>>
mcVars == <<mc_pc, mc_attempt, mc_log, mc_delays, mc_result, mc_calls>>
dpVars == <<dp_pc, dp_listed, dp_registered, dp_tasks, dp_args, dp_snapshot>>
eaVars == <<ea_agent, ea_tools_initialized, ea_created, ea_pc, ea_ret, ea_calls>>
apiVars == <<api_body, api_agent, api_response, api_served>>
sfVars == <<sf_ranked, sf_schema, sf_extracted, sf_result, sf_runs>>
vaVars == <<va_schema, va_arguments, va_error, va_normalized, va_again, va_done>>
hrVars == <<hr_pc, hr_max_retries, hr_attempt, hr_idempotent, hr_cached,
           hr_outcomes, hr_sleeps, hr_result, hr_calls>>
srVars == <<sr_tools, sr_tool_names, sr_tool_texts, sr_ops>>
coreVars == <<memVars, decVars, tmVars, exVars, agVars, riVars>>
extVars == <<rkVars, mcVars, dpVars, eaVars, apiVars, sfVars, vaVars, hrVars, srVars>>
\* The variables a component's specification leaves alone.
rkOthers == <<coreVars, mcVars, dpVars, eaVars, apiVars, sfVars, vaVars, hrVars, srVars>>
mcOthers == <<coreVars, rkVars, dpVars, eaVars, apiVars, sfVars, vaVars, hrVars, srVars>>
dpOthers == <<coreVars, rkVars, mcVars, eaVars, apiVars, sfVars, vaVars, hrVars, srVars>>
eaOthers == <<coreVars, rkVars, mcVars, dpVars, apiVars, sfVars, vaVars, hrVars, srVars>>
apiOthers == <<coreVars, rkVars, mcVars, dpVars, eaVars, sfVars, vaVars, hrVars, srVars>>
sfOthers == <<coreVars, rkVars, mcVars, dpVars, eaVars, apiVars, vaVars, hrVars, srVars>>
vaOthers == <<coreVars, rkVars, mcVars, dpVars, eaVars, apiVars, sfVars, hrVars, srVars>>
hrOthers == <<coreVars, rkVars, mcVars, dpVars, eaVars, apiVars, sfVars, vaVars, srVars>>
srOthers == <<coreVars, rkVars, mcVars, dpVars, eaVars, apiVars, sfVars, vaVars, hrVars>>

-----------------------------------------------------------------------------
(* Bounds of the model *)

MaxAdds == 5           \* add_message calls explored
MaxMaxMessages == 3    \* configured max_messages explored: 0..MaxMaxMessages and the default
MaxRanked == 2         \* candidates in the list handed to decide
MaxCalls == 2          \* execute_tool calls explored
MaxMaxRetries == 2     \* configured max_retries explored: 0..MaxMaxRetries
MaxProcessed == 2      \* process_message calls explored
MaxRecursion == 5      \* the interpreter's recursion limit, in frames
MaxRegistryOps == 4    \* register_tool and remove_tool calls explored
MaxHttpRetries == 2    \* largest HTTP_MAX_RETRIES explored
MaxHttpCalls == 2      \* _http_request calls explored
MaxFallbacks == 1      \* semantic fallbacks explored
MaxQueries == 3        \* POST /query requests explored
MaxEnsureCalls == 5    \* _ensure_agent calls explored
MaxListCalls == 3      \* get_available_tools calls explored
MaxBackoffRetries == 3 \* configured max_retries explored for the waits: 0..MaxBackoffRetries

-----------------------------------------------------------------------------
(* Generic helpers *)

Min(a, b) == IF a <= b THEN a ELSE b

\* Python's seq[-n:] for n >= 0: -0 is 0, so seq[-0:] is seq[0:], the whole list.
LastSlice(seq, n) ==
    IF n = 0 \/ n >= Len(seq) THEN seq
    ELSE SubSeq(seq, Len(seq) - n + 1, Len(seq))

\* The n most recently appended elements of seq, in order (n >= 0).
MostRecent(seq, n) ==
    IF n >= Len(seq) THEN seq
    ELSE SubSeq(seq, Len(seq) - n + 1, Len(seq))

-----------------------------------------------------------------------------
(* MemoryContext *)

DefaultMaxMessages == 20
MessageRoles == {"user", "assistant"}
Contents == {"a", "b"}
ConversationMessage == [role : MessageRoles, content : Contents]

MemoryContextInit(mm) ==
    /\ max_messages = mm
    /\ messages = <<>>
    /\ added = <<>>

\* The value of _messages after add_message(m).
add_message(msgs, mm, m) ==
    LET appended == Append(msgs, m)
    IN  IF Len(appended) > mm THEN LastSlice(appended, mm) ELSE appended

AddMessage ==
    /\ Len(added) < MaxAdds
    /\ \E m \in ConversationMessage :
          /\ messages' = add_message(messages, max_messages, m)
          /\ added' = Append(added, m)
    /\ UNCHANGED max_messages

\* get_recent_messages as a read-only query: it changes nothing, so it is
\* modelled by the operator alone.
get_recent_messages(msgs, c) == IF c <= 0 THEN <<>> ELSE LastSlice(msgs, c)

-----------------------------------------------------------------------------
(* SemanticSelector.decide; scores in hundredths *)

direct_threshold == 70
confirm_threshold == 40
min_score_gap_direct == 15
min_score_gap_confirm == 10

ScoreValues == {0, 35, 40, 45, 55, 65, 70, 75, 85, 100}
RankedLists == UNION {[1..n -> ScoreValues] : n \in 0..MaxRanked}

\* The route as the class docstring words it: thresholds only, no gap.
decide_thresholds_only(r) ==
    IF r = <<>> THEN [decision |-> "conversation", best |-> 0]
    ELSE [decision |-> IF r[1] >= direct_threshold THEN "direct"
                       ELSE IF r[1] >= confirm_threshold THEN "confirm"
                       ELSE "conversation",
          best |-> 1]

decide(r) ==
    IF r = <<>> THEN [decision |-> "conversation", best |-> 0]
    ELSE LET best_score == r[1]
             second_score == IF Len(r) > 1 THEN r[2] ELSE 0
             gap == best_score - second_score
         IN  [decision |->
                 IF best_score < confirm_threshold THEN "conversation"
                 ELSE IF best_score >= direct_threshold /\ gap >= min_score_gap_direct
                      THEN "direct"
                 ELSE IF best_score >= confirm_threshold /\ gap >= min_score_gap_confirm
                      THEN "confirm"
                 ELSE "conversation",
              best |-> 1]

DecideInit ==
    /\ ranked = <<>>
    /\ decision = "none"
    /\ best = 0

Decide ==
    \E r \in RankedLists :
        /\ ranked' = r
        /\ decision' = decide(r).decision
        /\ best' = decide(r).best

-----------------------------------------------------------------------------
(* ToolManager: schemas, arguments and their validation *)

\* Python dicts are functions; a missing key is a key outside the DOMAIN.
EmptyDict == <<>>
Put(d, k, v) == [x \in (DOMAIN d) \cup {k} |-> IF x = k THEN v ELSE d[x]]
Pop(d, ks) == [x \in (DOMAIN d) \ ks |-> d[x]]
Get(d, k, default) == IF k \in DOMAIN d THEN d[k] ELSE default

\* A value is its Python type and, for a dict, its items.
Val(t) == [t |-> t, items |-> EmptyDict]
DictVal(d) == [t |-> "dict", items |-> d]

\* A property schema: leaves have no required list and no properties.
Leaf(type) == [type |-> type, required |-> <<>>, properties |-> EmptyDict]
NoProp == [type |-> "", required |-> <<>>, properties |-> EmptyDict]

\* str.lower() on the key names of the model.
Lower(k) ==
    CASE k = "ID" -> "id"
      [] k = "avionId" -> "avionid"
      [] OTHER -> k

\* re.sub(r"[^a-z0-9]", "", k.lower())
AlnumLower(k) ==
    CASE Lower(k) = "avion id" -> "avionid"
      [] OTHER -> Lower(k)

\* re.sub(r"([a-z])([A-Z])", r"\1 \2", k).lower()
CamelSplitLower(k) ==
    CASE k = "avionId" -> "avion id"
      [] OTHER -> Lower(k)

\* re.sub(r"\s+", "", camel_split)
CamelJoined(k) ==
    CASE CamelSplitLower(k) = "avion id" -> "avionid"
      [] OTHER -> CamelSplitLower(k)

\* key_variants(k), in order; duplicates do not change the first match.
key_variants(k) ==
    <<k, Lower(k), AlnumLower(k), CamelSplitLower(k), CamelJoined(k)>>

SeqToSet(s) == {s[i] : i \in DOMAIN s}

\* isinstance(value, type_mapping[expected_type]); bool is a subclass of int.
\* An unknown expected type is accepted.
validate_type(value, expected_type) ==
    CASE expected_type = "string" -> value.t = "str"
      [] expected_type = "integer" -> value.t \in {"int", "bool"}
      [] expected_type = "number" -> value.t \in {"int", "float", "bool"}
      [] expected_type = "boolean" -> value.t = "bool"
      [] expected_type = "array" -> value.t = "list"
      [] expected_type = "object" -> value.t = "dict"
      [] OTHER -> TRUE

\* len(req) == 1 and props.get(req[0], {}).get("type") == "object"
IsObjectRoot(schema) ==
    /\ Len(schema.required) = 1
    /\ Get(schema.properties, schema.required[1], NoProp).type = "object"

\* True when some item of d is a key of props with a type it does not have.
HasTypeError(d, props) ==
    \E k \in DOMAIN d :
        /\ k \in DOMAIN props
        /\ props[k].type # ""
        /\ ~validate_type(d[k], props[k].type)

\* _validate_arguments on a registered schema: "" for None, otherwise the
\* kind of the error message returned.
ValidateAgainst(schema, arguments) ==
    LET req == schema.required
        props == schema.properties
    IN  IF IsObjectRoot(schema)
        THEN LET root == req[1]
                 inner == props[root]
                 root_val == Get(arguments, root, DictVal(EmptyDict))
             IN  IF root_val.t # "dict" THEN "root_not_dict"
                 ELSE IF \E f \in SeqToSet(inner.required) : f \notin DOMAIN root_val.items
                      THEN "missing_inner"
                 ELSE IF HasTypeError(root_val.items, inner.properties)
                      THEN "type_inner"
                 ELSE ""
        ELSE IF \E r \in SeqToSet(req) : r \notin DOMAIN arguments
             THEN "missing_flat"
        ELSE IF HasTypeError(arguments, props) THEN "type_flat"
        ELSE ""

\* The first variant of k that is a lower-cased argument key names the
\* argument collected for k: flat_lower[kv]. Inputs never hold two keys with
\* the same lower-case form, so flat_lower is a function of the arguments.
FlatMatch(args, k) ==
    LET vs == key_variants(k)
        hits == {i \in DOMAIN vs : \E a \in DOMAIN args : Lower(a) = vs[i]}
    IN  IF hits = {} THEN {}
        ELSE LET first == CHOOSE i \in hits : \A j \in hits : i <= j
             IN  {a \in DOMAIN args : Lower(a) = vs[first]}

\* normalize_arguments(schema, arguments); schema is {} (NoSchema) when the
\* tool has none.
normalize_arguments(schema, arguments) ==
    IF Len(schema.required) = 1
       /\ Get(schema.properties, schema.required[1], NoProp).type = "object"
    THEN LET root == schema.required[1]
             root_prop == schema.properties[root]
             inner_keys == SeqToSet(root_prop.required) \cup DOMAIN root_prop.properties
             found == {k \in inner_keys : FlatMatch(arguments, k) # {}}
             collected == [k \in found |->
                              arguments[CHOOSE a \in FlatMatch(arguments, k) : TRUE]]
         IN  IF root \in DOMAIN arguments THEN arguments
             ELSE IF found = {} THEN arguments
             ELSE Put(Pop(arguments, found), root, DictVal(collected))
    ELSE arguments

-----------------------------------------------------------------------------
(* ToolManager: registry, schema cache and execution statistics *)

default_max_retries == 2
lru_maxsize == 50

\* Optional[...]: <<>> is None, <<x>> is x.
None == <<>>
Some(x) == <<x>>

EmptySchema == [required |-> <<>>, properties |-> EmptyDict]

FlatSchema ==
    [required |-> <<"id">>,
     properties |-> ("id" :> Leaf("integer") @@ "modelo" :> Leaf("string"))]

RootSchema ==
    [required |-> <<"data">>,
     properties |->
        ("data" :> [type |-> "object",
                    required |-> <<"id", "avionId">>,
                    properties |-> ("id" :> Leaf("integer") @@
                                    "avionId" :> Leaf("string"))])]

HandlerKinds == {"async", "sync", "sync_coro", "mcp"}

NewStats == [total_executions |-> 0, successful_executions |-> 0, failed_executions |-> 0]

ToolManagerInit(mr, ev) ==
    /\ tm_max_retries = mr
    /\ enable_validation = ev
    /\ registered_tools = EmptyDict
    /\ tool_schemas = EmptyDict
    /\ execution_stats = EmptyDict
    /\ schema_cache = <<>>
    /\ gs_name = "none"
    /\ gs_result = None

\* register_tool(name, handler, schema): schema is an Optional; a falsy
\* schema (None) leaves tool_schemas alone.
RegisterTool(name, handler, schema) ==
    /\ registered_tools' = Put(registered_tools, name, handler)
    /\ tool_schemas' = IF schema # None THEN Put(tool_schemas, name, schema[1])
                       ELSE tool_schemas
    /\ execution_stats' = Put(execution_stats, name, NewStats)
    /\ gs_name' = "none"
    /\ gs_result' = None
    /\ UNCHANGED <<tm_max_retries, enable_validation, schema_cache>>

UnregisterTool(name) ==
    /\ IF name \in DOMAIN registered_tools
       THEN /\ registered_tools' = Pop(registered_tools, {name})
            /\ tool_schemas' = Pop(tool_schemas, {name})
            /\ execution_stats' = Pop(execution_stats, {name})
       ELSE UNCHANGED <<registered_tools, tool_schemas, execution_stats>>
    /\ gs_name' = "none"
    /\ gs_result' = None
    /\ UNCHANGED <<tm_max_retries, enable_validation, schema_cache>>

\* tool_schemas.get(name)
SchemaOf(schemas, name) == IF name \in DOMAIN schemas THEN Some(schemas[name]) ELSE None

\* functools.lru_cache(maxsize): entries in order of use, the least recently
\* used first. A hit returns the stored value without running the body.
CacheHits(cache, name) == {i \in DOMAIN cache : cache[i].key = name}
CacheWithout(cache, i) ==
    [j \in 1..(Len(cache) - 1) |-> IF j < i THEN cache[j] ELSE cache[j + 1]]

\* The value get_tool_schema(name) returns.
get_tool_schema(cache, schemas, name) ==
    IF CacheHits(cache, name) # {}
    THEN cache[CHOOSE i \in CacheHits(cache, name) : TRUE].value
    ELSE SchemaOf(schemas, name)

\* The cache after get_tool_schema(name).
CacheAfterGet(cache, schemas, name) ==
    LET entry == [key |-> name, value |-> get_tool_schema(cache, schemas, name)]
        kept == IF CacheHits(cache, name) # {}
                THEN CacheWithout(cache, CHOOSE i \in CacheHits(cache, name) : TRUE)
                ELSE cache
        grown == Append(kept, entry)
    IN  IF Len(grown) > lru_maxsize THEN Tail(grown) ELSE grown

GetToolSchema(name) ==
    /\ gs_name' = name
    /\ gs_result' = get_tool_schema(schema_cache, tool_schemas, name)
    /\ schema_cache' = CacheAfterGet(schema_cache, tool_schemas, name)
    /\ UNCHANGED <<tm_max_retries, enable_validation, registered_tools,
                   tool_schemas, execution_stats>>

\* _update_execution_stats(tool_name, success, _)
update_execution_stats(stats, tool_name, success) ==
    IF tool_name \notin DOMAIN stats THEN stats
    ELSE LET st == stats[tool_name]
         IN  Put(stats, tool_name,
                 [total_executions |-> st.total_executions + 1,
                  successful_executions |->
                      st.successful_executions + (IF success THEN 1 ELSE 0),
                  failed_executions |->
                      st.failed_executions + (IF success THEN 0 ELSE 1)])

\* A ToolManager whose validation accepts every argument dictionary.
validate_arguments_skipped(schemas, tool_name, arguments) == ""

\* _validate_arguments(tool_name, arguments): reads tool_schemas directly.
validate_arguments(schemas, tool_name, arguments) ==
    IF tool_name \notin DOMAIN schemas THEN ""
    ELSE ValidateAgainst(schemas[tool_name], arguments)

-----------------------------------------------------------------------------
(* ToolManager.execute_tool *)

\* What a handler returns: the shape execute_tool inspects.
\*   type       dict, list or anything else
\*   status     result.get("status")
\*   error      result.get("error")
\*   text_error the first item of the list (of result["result"] for a dict)
\*              is a text part containing "Error executing tool"
Result(type, st, error, text_error) ==
    [type |-> type, status |-> st, error |-> error, text_error |-> text_error]

R_plain == Result("other", "", "", FALSE)
R_dict_ok == Result("dict", "ok", "", FALSE)
R_dict_error == Result("dict", "error", "msg", FALSE)
R_dict_text_error == Result("dict", "ok", "", TRUE)
R_list_text_error == Result("list", "", "", TRUE)
HandlerResults == {R_plain, R_dict_ok, R_dict_error, R_dict_text_error, R_list_text_error}

\* MCPClient.call_tool: every exception of the SSE session is caught and
\* turned into a dict with status "error".
call_tool(transport) ==
    CASE transport = "transport_error" -> R_dict_error
      [] transport = "tool_error" -> R_dict_text_error
      [] OTHER -> R_dict_ok

McpTransports == {"ok", "tool_error", "transport_error"}

\* One run of a handler inside an attempt.
Outcome(inv, end, result, event) ==
    [inv |-> inv, end |-> end, result |-> result, event |-> event]

\* mcp_handler (create_mcp_handler): awaits call_tool and returns its value;
\* it re-raises only what call_tool lets through, which is nothing.
mcp_handler_outcomes ==
    {Outcome(1, "return", call_tool(t), t) : t \in McpTransports}
    \cup {Outcome(1, "timeout", R_plain, "timeout")}

\* _execute_with_timeout: the ways one attempt can end for a kind of handler,
\* with the number of times the handler was called.
\*   async      coroutine function: called once under wait_for
\*   sync_coro  plain function returning a coroutine: called once, awaited
\*   sync       plain function: called directly and, when that call returns a
\*              value, called again in the executor
execute_with_timeout(kind) ==
    CASE kind = "mcp" -> mcp_handler_outcomes
      [] kind = "sync" ->
            {Outcome(1, "raise", R_plain, "raise"), Outcome(1, "timeout", R_plain, "timeout")}
            \cup {Outcome(2, "return", r, "return") : r \in HandlerResults}
            \cup {Outcome(2, "raise", R_plain, "raise"), Outcome(2, "timeout", R_plain, "timeout")}
      [] OTHER ->
            {Outcome(1, "return", r, "return") : r \in HandlerResults}
            \cup {Outcome(1, "raise", R_plain, "raise"), Outcome(1, "timeout", R_plain, "timeout")}

\* cleaned_error is set (truthy) for this result.
cleaned_error(result) ==
    IF result.type = "dict"
    THEN IF result.status = "error" \/ result.error # "" THEN TRUE
         ELSE result.text_error
    ELSE IF result.type = "list" THEN result.text_error
    ELSE FALSE

ExecutionResult(st, retry_count) == [status |-> st, retry_count |-> retry_count]
NoResult == ExecutionResult("none", 0)

ExecuteInit ==
    /\ ex_pc = "idle"
    /\ ex_tool = "none"
    /\ ex_args = EmptyDict
    /\ ex_retry_count = 0
    /\ ex_invocations = 0
    /\ ex_log = <<>>
    /\ ex_sleeps = <<>>
    /\ ex_result = NoResult
    /\ ex_stats_before = EmptyDict
    /\ tm_calls = 0

\* execute_tool up to the retry loop: lookup, schema, normalisation, validation.
ExecuteToolBegin(tool_name, arguments) ==
    LET schema_opt == get_tool_schema(schema_cache, tool_schemas, tool_name)
        schema == IF schema_opt = None THEN EmptySchema ELSE schema_opt[1]
        normalized == normalize_arguments(schema, arguments)
        validation_error ==
            IF enable_validation
            THEN validate_arguments(tool_schemas, tool_name, normalized)
            ELSE ""
    IN  /\ ex_pc \in {"idle", "returned"}
        /\ tm_calls < MaxCalls
        /\ tm_calls' = tm_calls + 1
        /\ ex_tool' = tool_name
        /\ ex_retry_count' = 0
        /\ ex_invocations' = 0
        /\ ex_log' = <<>>
        /\ ex_sleeps' = <<>>
        /\ ex_stats_before' = execution_stats
        /\ IF tool_name \notin DOMAIN registered_tools
           THEN /\ ex_result' = ExecutionResult("not_found", 0)
                /\ ex_args' = arguments
                /\ ex_pc' = "returned"
                /\ UNCHANGED schema_cache
           ELSE /\ schema_cache' = CacheAfterGet(schema_cache, tool_schemas, tool_name)
                /\ ex_args' = normalized
                /\ IF validation_error # ""
                   THEN /\ ex_result' = ExecutionResult("validation_error", 0)
                        /\ ex_pc' = "returned"
                   ELSE /\ ex_result' = NoResult
                        /\ ex_pc' = "attempt"
        /\ gs_name' = "none"
        /\ gs_result' = None
        /\ UNCHANGED <<tm_max_retries, enable_validation, registered_tools,
                       tool_schemas, execution_stats>>

\* An execute_tool that reports every failed call as ERROR.
FailureStatusAlwaysError(end) == "error"

\* The status an attempt that did not return a value ends the call with.
FailureStatus(end) == IF end = "timeout" THEN "timeout" ELSE "error"

\* What execute_tool does with the outcome o of one attempt.
\*   a returned value: success is recorded, then the value is inspected
\*   and an error found in it is recorded as a failure as well;
\*   timeout or exception: the call ends when retry_count >= max_retries,
\*   otherwise retry_count grows and the loop sleeps 0.5 * retry_count.
AttemptStep(o) ==
    /\ ex_invocations' = ex_invocations + o.inv
    /\ ex_log' = Append(ex_log, o.event)
    /\ IF o.end = "return"
       THEN /\ execution_stats' =
                  IF cleaned_error(o.result)
                  THEN update_execution_stats(
                           update_execution_stats(execution_stats, ex_tool, TRUE),
                           ex_tool, FALSE)
                  ELSE update_execution_stats(execution_stats, ex_tool, TRUE)
            /\ ex_result' = ExecutionResult(
                                IF cleaned_error(o.result) THEN "error" ELSE "success",
                                ex_retry_count)
            /\ ex_pc' = "returned"
            /\ UNCHANGED <<ex_retry_count, ex_sleeps>>
       ELSE IF ex_retry_count >= tm_max_retries
            THEN /\ execution_stats' =
                       update_execution_stats(execution_stats, ex_tool, FALSE)
                 /\ ex_result' = ExecutionResult(FailureStatus(o.end), ex_retry_count)
                 /\ ex_pc' = "returned"
                 /\ UNCHANGED <<ex_retry_count, ex_sleeps>>
            ELSE /\ ex_retry_count' = ex_retry_count + 1
                 /\ ex_sleeps' = Append(ex_sleeps, ex_retry_count + 1)
                 /\ ex_pc' = "attempt"
                 /\ UNCHANGED <<execution_stats, ex_result>>

\* One iteration of the retry loop of execute_tool.
ExecuteToolAttempt ==
    /\ ex_pc = "attempt"
    /\ \E o \in execute_with_timeout(registered_tools[ex_tool]) : AttemptStep(o)
    /\ UNCHANGED <<tm_max_retries, enable_validation, registered_tools, tool_schemas,
                   schema_cache, gs_name, gs_result, ex_tool, ex_args,
                   ex_stats_before, tm_calls>>

-----------------------------------------------------------------------------
(* AgentCore.process_message *)

max_loop_iterations == 10

ActionTypes == {"conversation", "tool_call", "clarify"}

\* Where an exception can be raised inside the try block of process_message:
\* nowhere, or in one of the calls of the step being taken.
NoFault == "none"
BeginFaults == {NoFault, "user_message"}
ToolCallFaults == {NoFault, "reasoning", "dependencies", "tool_action"}
ActionFaults == {NoFault, "reasoning", "action"}
FinishFaults == {NoFault, "response"}

AgentResponse(action_taken, tool_used) ==
    [action_taken |-> action_taken, tool_used |-> tool_used]
NoResponse == AgentResponse("none", "")

\* What _execute_tool_action returns: the tool ran (whatever its status), or
\* an exception was caught around it.
ToolActionResponses ==
    {AgentResponse("tool_execution", "tool"), AgentResponse("tool_error", "tool")}

\* A memory that stores every message under the USER role.
MessageAlwaysUser(role, content) == [role |-> "user", content |-> content]

Message(role, content) == [role |-> role, content |-> content]

AgentInit ==
    /\ ag_pc = "idle"
    /\ status = "idle"
    /\ loop_counter = 0
    /\ tool_exec_count = 0
    /\ response = NoResponse
    /\ session_stats = [messages_processed |-> 0, errors |-> 0]
    /\ ag_return = NoResponse
    /\ ag_raised = FALSE
    /\ ag_iterations = 0
    /\ ag_stats_before = [messages_processed |-> 0, errors |-> 0]
    /\ ag_added_before = 0

\* Session statistics that count a failed message as a successful one.
update_session_stats_no_errors(stats, success) ==
    [stats EXCEPT !.messages_processed = @ + 1]

\* _update_session_stats(_, success)
update_session_stats(stats, success) ==
    [stats EXCEPT !.messages_processed = @ + 1,
                  !.errors = IF success THEN @ ELSE @ + 1]

\* A loop that admits one more iteration than the limit.
LoopContinuesOnceMore(lc) == lc <= max_loop_iterations

\* while loop_counter < 10
LoopContinues(lc) == lc < max_loop_iterations

\* The except branch of process_message.
ProcessMessageFails ==
    /\ status' = "error"
    /\ session_stats' = update_session_stats(session_stats, FALSE)
    /\ ag_return' = AgentResponse("error", "")
    /\ ag_raised' = TRUE
    /\ ag_pc' = "returned"

\* process_message up to the loop: status, the user's message into memory.
ProcessMessageBegin(fault) ==
    /\ ag_pc \in {"idle", "returned"}
    /\ session_stats.messages_processed < MaxProcessed
    /\ ag_stats_before' = session_stats
    /\ ag_added_before' = Len(added)
    /\ ag_iterations' = 0
    /\ IF fault # NoFault
       THEN /\ ProcessMessageFails
            /\ UNCHANGED <<loop_counter, tool_exec_count, response, messages, added>>
       ELSE /\ status' = "processing"
            /\ messages' = add_message(messages, max_messages, Message("user", "text"))
            /\ added' = Append(added, Message("user", "text"))
            /\ loop_counter' = 0
            /\ tool_exec_count' = 0
            /\ response' = NoResponse
            /\ ag_return' = NoResponse
            /\ ag_raised' = FALSE
            /\ ag_pc' = "loop"
            /\ UNCHANGED session_stats
    /\ UNCHANGED max_messages

\* One iteration that reasons TOOL_CALL: dependencies, the tool, its result
\* into memory as a USER message, and the loop goes on.
LoopToolCall(fault, tool_response) ==
    /\ ag_pc = "loop"
    /\ LoopContinues(loop_counter)
    /\ ag_iterations' = ag_iterations + 1
    /\ IF fault # NoFault
       THEN /\ ProcessMessageFails
            /\ UNCHANGED <<loop_counter, tool_exec_count, response, messages, added>>
       ELSE /\ response' = tool_response
            /\ tool_exec_count' = tool_exec_count + 1
            /\ messages' = add_message(messages, max_messages, Message("user", "tool_result"))
            /\ added' = Append(added, Message("user", "tool_result"))
            /\ loop_counter' = loop_counter + 1
            /\ UNCHANGED <<ag_pc, status, session_stats, ag_return, ag_raised>>
    /\ UNCHANGED <<max_messages, ag_stats_before, ag_added_before>>

\* One iteration that reasons CONVERSATION or CLARIFY: _execute_action
\* answers and the loop breaks.
LoopAnswer(action, fault) ==
    /\ ag_pc = "loop"
    /\ LoopContinues(loop_counter)
    /\ ag_iterations' = ag_iterations + 1
    /\ IF fault # NoFault
       THEN /\ ProcessMessageFails
            /\ UNCHANGED response
       ELSE /\ response' = AgentResponse(
                              IF action = "clarify" THEN "clarification" ELSE "conversation",
                              "")
            /\ ag_pc' = "finish"
            /\ UNCHANGED <<status, session_stats, ag_return, ag_raised>>
    /\ UNCHANGED <<loop_counter, tool_exec_count, messages, added, max_messages,
                   ag_stats_before, ag_added_before>>

\* After the loop: the fallback for a missing response, the ASSISTANT
\* message, the statistics, and the return.
ProcessMessageFinish(fault) ==
    /\ \/ ag_pc = "finish"
       \/ ag_pc = "loop" /\ ~LoopContinues(loop_counter)
    /\ IF fault # NoFault
       THEN /\ ProcessMessageFails
            /\ UNCHANGED <<response, messages, added>>
       ELSE LET final == IF response = NoResponse
                         THEN AgentResponse("error", "")
                         ELSE response
            IN  /\ response' = final
                /\ messages' = add_message(messages, max_messages,
                                           Message("assistant", final.action_taken))
                /\ added' = Append(added, Message("assistant", final.action_taken))
                /\ session_stats' = update_session_stats(session_stats, TRUE)
                /\ status' = "idle"
                /\ ag_return' = final
                /\ ag_raised' = FALSE
                /\ ag_pc' = "returned"
    /\ UNCHANGED <<loop_counter, tool_exec_count, max_messages, ag_stats_before,
                   ag_added_before, ag_iterations>>

-----------------------------------------------------------------------------
(* ReasoningEngine.analyze_intent / analyze_intent_v2 *)

\* The LLM call: it raises, or answers with or without a function call
\* (function_call "" is none). The text parts of the answer only reach the
\* reasoning string and are left out.
LlmResponse(raises, function_call) ==
    [raises |-> raises, function_call |-> function_call]

\* What SchemaExtractor.extract_arguments gives for a tool on this message:
\*   "empty"   no argument extracted
\*   "valid"   arguments, none of them (most of) the whole message
\*   "invalid" arguments, one of them (most of) the whole message
Extractions == {"empty", "valid", "invalid"}

\* The schema of an available tool, as analyze_intent_v2 looks at it:
\*   "none"   no 'parameters' (or an empty one)
\*   "noreq"  parameters without required fields
\*   "req"    parameters with required fields
SchemaKinds == {"none", "noreq", "req"}

ReasoningResult(action, tool_name) == [action |-> action, tool_name |-> tool_name]

\* The position of the first tool called name in the list, 0 when absent.
FirstNamed(tools, name) ==
    IF \E i \in DOMAIN tools : tools[i] = name
    THEN CHOOSE i \in DOMAIN tools : tools[i] = name /\ \A j \in 1..(i - 1) : tools[j] # name
    ELSE 0

\* alternative_tools: the other tools whose required arguments can be
\* extracted, in list order.
AlternativeTools(tools, kinds, extract, tool_name) ==
    SelectSeq(tools, LAMBDA alt : /\ alt # tool_name
                                  /\ kinds[alt] = "req"
                                  /\ extract[alt] = "valid")

\* analyze_intent_v2(user_message, available_tools, _):
\*   llm      the answer of generate_content
\*   tools    the names of available_tools, in order
\*   kinds    the schema of each
\*   extract  what extract_arguments finds for each in user_message
analyze_intent_v2(llm, tools, kinds, extract) ==
    IF llm.raises THEN ReasoningResult("conversation", "")
    ELSE IF llm.function_call # ""
    THEN LET tool_name == llm.function_call
             listed == FirstNamed(tools, tool_name) # 0
             has_schema == listed /\ kinds[tools[FirstNamed(tools, tool_name)]] # "none"
             required_fields == has_schema /\ kinds[tool_name] = "req"
             unextractable == has_schema /\ extract[tool_name] \in {"empty", "invalid"}
             alternatives == AlternativeTools(tools, kinds, extract, tool_name)
         IN  IF required_fields /\ unextractable
             THEN IF alternatives # <<>>
                  THEN ReasoningResult("tool_call", alternatives[1])
                  ELSE ReasoningResult("conversation", "")
             ELSE ReasoningResult("tool_call", tool_name)
    ELSE ReasoningResult("conversation", "")

\* analyze_intent delegates to analyze_intent_v2.
analyze_intent(llm, tools, kinds, extract) == analyze_intent_v2(llm, tools, kinds, extract)

IntentToolNames == {"t1", "t2"}
LlmResponses ==
    {LlmResponse(TRUE, "")}
    \cup {LlmResponse(FALSE, f) : f \in IntentToolNames \cup {"", "t_other"}}
ToolLists == {<<>>, <<"t1">>, <<"t2">>, <<"t1", "t2">>, <<"t2", "t1">>}
SchemaKindMaps == [IntentToolNames -> SchemaKinds]
IntentCalls ==
    [llm : LlmResponses, tools : ToolLists, extract : [IntentToolNames -> Extractions]]
NoIntentCall ==
    [llm |-> LlmResponse(TRUE, ""), tools |-> <<>>,
     extract |-> [n \in IntentToolNames |-> "empty"]]

IntentInit(kinds) ==
    /\ ri_kinds = kinds
    /\ ri_call = NoIntentCall
    /\ ri_result = ReasoningResult("none", "")
    /\ ri_seen = {}

AnalyzeIntent ==
    \E c \in IntentCalls :
        LET rr == analyze_intent(c.llm, c.tools, ri_kinds, c.extract)
        IN  /\ ri_call' = c
            /\ ri_result' = rr
            /\ ri_seen' = ri_seen \cup {rr.action}
            /\ UNCHANGED ri_kinds

-----------------------------------------------------------------------------
(* SemanticSelector.rank_tools and rank_tools_with_fallback *)

\* A ranking is the list of the ranked tools' names, best first.
RankMethods == {"rank_tools", "rank_tools_with_fallback"}
Frame(fn, phase) == [fn |-> fn, phase |-> phase]

RankInit ==
    /\ rk_initialized = TRUE
    /\ rk_query = ""
    /\ rk_tools = {}
    /\ rk_semantic = <<>>
    /\ rk_tfidf = <<>>
    /\ rk_entry = "none"
    /\ rk_stack = <<>>
    /\ rk_ret = None
    /\ rk_pc = "idle"
    /\ rk_result = <<>>
    /\ rk_embed_failed = FALSE

\* A caller calls one of the two methods.
RankCall(fn, initialized, query, tools, semantic, tfidf) ==
    /\ rk_pc \in {"idle", "returned", "raised"}
    /\ rk_initialized' = initialized
    /\ rk_query' = query
    /\ rk_tools' = tools
    /\ rk_semantic' = semantic
    /\ rk_tfidf' = tfidf
    /\ rk_entry' = fn
    /\ rk_stack' = <<Frame(fn, "start")>>
    /\ rk_ret' = None
    /\ rk_pc' = "running"
    /\ rk_result' = <<>>
    /\ rk_embed_failed' = FALSE

\* The running frame calls fn and waits for it. Neither method catches what
\* the call raises, so the RecursionError of a call beyond the interpreter's
\* recursion limit unwinds every frame and reaches the caller.
RankPush(fn) ==
    IF Len(rk_stack) >= MaxRecursion
    THEN /\ rk_pc' = "raised"
         /\ rk_stack' = <<>>
    ELSE /\ rk_stack' = Append([rk_stack EXCEPT ![Len(rk_stack)].phase = "waiting"],
                               Frame(fn, "start"))
         /\ UNCHANGED rk_pc

\* The running frame returns v.
RankPop(v) ==
    /\ rk_stack' = SubSeq(rk_stack, 1, Len(rk_stack) - 1)
    /\ rk_ret' = Some(v)
    /\ UNCHANGED rk_pc

\* rank_tools up to its return or its call of rank_tools_with_fallback.
RankToolsBody ==
    /\ rk_pc = "running"
    /\ rk_ret = None
    /\ rk_stack # <<>>
    /\ rk_stack[Len(rk_stack)] = Frame("rank_tools", "start")
    /\ IF rk_query = "" \/ rk_tools = {}
       THEN RankPop(<<>>) /\ UNCHANGED rk_embed_failed
       ELSE IF ~rk_initialized
       THEN RankPush("rank_tools_with_fallback") /\ UNCHANGED <<rk_ret, rk_embed_failed>>
       ELSE \E q_emb \in BOOLEAN :
               IF ~q_emb
               THEN /\ RankPush("rank_tools_with_fallback")
                    /\ rk_embed_failed' = TRUE
                    /\ UNCHANGED rk_ret
               ELSE RankPop(rk_semantic) /\ UNCHANGED rk_embed_failed
    /\ UNCHANGED <<rk_initialized, rk_query, rk_tools, rk_semantic, rk_tfidf,
                   rk_entry, rk_result>>

\* rank_tools_with_fallback up to its call of rank_tools.
RankFallbackBody ==
    /\ rk_pc = "running"
    /\ rk_ret = None
    /\ rk_stack # <<>>
    /\ rk_stack[Len(rk_stack)] = Frame("rank_tools_with_fallback", "start")
    /\ RankPush("rank_tools")
    /\ UNCHANGED <<rk_initialized, rk_query, rk_tools, rk_semantic, rk_tfidf,
                   rk_entry, rk_result, rk_ret, rk_embed_failed>>

\* A call has returned the value in rk_ret: to the caller, or to the frame
\* that waits for it. rank_tools returns what rank_tools_with_fallback gave;
\* rank_tools_with_fallback returns a non-empty ranking and replaces an empty
\* one by the TF-IDF ranking of the registry.
RankResume ==
    /\ rk_pc = "running"
    /\ rk_ret # None
    /\ LET v == rk_ret[1]
       IN  IF rk_stack = <<>>
           THEN /\ rk_pc' = "returned"
                /\ rk_result' = v
                /\ rk_ret' = None
                /\ UNCHANGED rk_stack
           ELSE /\ IF rk_stack[Len(rk_stack)].fn = "rank_tools" \/ v # <<>>
                   THEN RankPop(v)
                   ELSE RankPop(rk_tfidf)
                /\ UNCHANGED rk_result
    /\ UNCHANGED <<rk_initialized, rk_query, rk_tools, rk_semantic, rk_tfidf,
                   rk_entry, rk_embed_failed>>

-----------------------------------------------------------------------------
(* MCPClient.get_available_tools *)

mcp_max_retries == 3
base_delay == 2

RECURSIVE Pow2(_)
Pow2(n) == IF n = 0 THEN 1 ELSE 2 * Pow2(n - 1)

\* A fixed wait between the attempts.
McpDelayConstant(attempt) == base_delay

\* delay = base_delay * (2 ** attempt)
McpDelay(attempt) == base_delay * Pow2(attempt)

\* How one attempt ends: the session lists the tools, something in it raises,
\* or wait_for times out (re-raised as TimeoutError inside the try block).
AttemptEnd(end, tools) == [end |-> end, tools |-> tools]
ServerToolLists == {<<>>, <<"a">>, <<"b">>, <<"a", "b">>}
AttemptEnds ==
    {AttemptEnd("listed", ts) : ts \in ServerToolLists}
    \cup {AttemptEnd("raised", <<>>), AttemptEnd("timeout", <<>>)}

McpInit ==
    /\ mc_pc = "idle"
    /\ mc_attempt = 0
    /\ mc_log = <<>>
    /\ mc_delays = <<>>
    /\ mc_result = <<>>
    /\ mc_calls = 0

\* get_available_tools up to its loop.
GetAvailableToolsBegin ==
    /\ mc_pc \in {"idle", "returned"}
    /\ mc_calls < MaxListCalls
    /\ mc_calls' = mc_calls + 1
    /\ mc_pc' = "attempt"
    /\ mc_attempt' = 0
    /\ mc_log' = <<>>
    /\ mc_delays' = <<>>
    /\ mc_result' = <<>>

\* One iteration of for attempt in range(max_retries).
GetAvailableToolsAttempt(e) ==
    /\ mc_pc = "attempt"
    /\ mc_attempt < mcp_max_retries
    /\ mc_log' = Append(mc_log, e)
    /\ IF e.end = "listed"
       THEN /\ mc_result' = e.tools
            /\ mc_pc' = "returned"
            /\ UNCHANGED <<mc_attempt, mc_delays>>
       ELSE IF mc_attempt < mcp_max_retries - 1
            THEN /\ mc_delays' = Append(mc_delays, McpDelay(mc_attempt))
                 /\ mc_attempt' = mc_attempt + 1
                 /\ UNCHANGED <<mc_pc, mc_result>>
            ELSE /\ mc_result' = <<>>
                 /\ mc_pc' = "returned"
                 /\ UNCHANGED <<mc_attempt, mc_delays>>
    /\ UNCHANGED mc_calls

-----------------------------------------------------------------------------
(* AgentCore._execute_dependencies and the tool action that follows it *)

\* The statuses execute_tool ends a dependency with; it returns an
\* ExecutionResult for every failure of the handler, so no task raises.
DepStatuses == {"success", "error", "timeout", "validation_error"}
TaskDone(tasks, d) == tasks[d] \in DepStatuses

\* A gather that resumes its awaiter as soon as one task is done.
GatherReturnsOnFirst(tasks) == \E d \in DOMAIN tasks : TaskDone(tasks, d)

\* await asyncio.gather(*tasks) resumes when every task is done.
GatherReturns(tasks) == \A d \in DOMAIN tasks : TaskDone(tasks, d)

DepsInit ==
    /\ dp_pc = "idle"
    /\ dp_listed = {}
    /\ dp_registered = {}
    /\ dp_tasks = EmptyDict
    /\ dp_args = EmptyDict
    /\ dp_snapshot = EmptyDict

\* _execute_dependencies up to its await: a task per listed dependency that
\* is registered, each execute_tool(dep, {}, context); without tasks it
\* returns at once.
ExecuteDependenciesBegin(listed, registered) ==
    LET deps == listed \cap registered
    IN  /\ dp_pc \in {"idle", "done"}
        /\ dp_listed' = listed
        /\ dp_registered' = registered
        /\ dp_tasks' = [d \in deps |-> "pending"]
        /\ dp_args' = [d \in deps |-> EmptyDict]
        /\ dp_snapshot' = EmptyDict
        /\ dp_pc' = IF deps = {} THEN "gathered" ELSE "gather"

\* The event loop starts the task of dependency d.
DependencyStarts(d) ==
    /\ dp_pc \in {"gather", "gathered", "tool"}
    /\ d \in DOMAIN dp_tasks
    /\ dp_tasks[d] = "pending"
    /\ dp_tasks' = [dp_tasks EXCEPT ![d] = "running"]
    /\ UNCHANGED <<dp_pc, dp_listed, dp_registered, dp_args, dp_snapshot>>

\* execute_tool of dependency d returns its ExecutionResult.
DependencyFinishes(d, st) ==
    /\ dp_pc \in {"gather", "gathered", "tool"}
    /\ d \in DOMAIN dp_tasks
    /\ dp_tasks[d] = "running"
    /\ dp_tasks' = [dp_tasks EXCEPT ![d] = st]
    /\ UNCHANGED <<dp_pc, dp_listed, dp_registered, dp_args, dp_snapshot>>

\* The gather resumes _execute_dependencies, which returns.
ExecuteDependenciesReturn ==
    /\ dp_pc = "gather"
    /\ GatherReturns(dp_tasks)
    /\ dp_pc' = "gathered"
    /\ UNCHANGED <<dp_listed, dp_registered, dp_tasks, dp_args, dp_snapshot>>

\* process_message goes on to _execute_tool_action: the handler starts.
ToolActionStarts ==
    /\ dp_pc = "gathered"
    /\ dp_pc' = "tool"
    /\ dp_snapshot' = dp_tasks
    /\ UNCHANGED <<dp_listed, dp_registered, dp_tasks, dp_args>>

ToolActionReturns ==
    /\ dp_pc = "tool"
    /\ dp_pc' = "done"
    /\ UNCHANGED <<dp_listed, dp_registered, dp_tasks, dp_args, dp_snapshot>>

-----------------------------------------------------------------------------
(* client_mcp._ensure_agent *)

\* The requests are coroutines of one event loop: a step runs from one await
\* to the next without interleaving.
Requests == {"r1", "r2", "r3"}

\* An _ensure_agent that builds an AgentCore on every call.
ensure_instance_always_new(agent, created) == created + 1

\* if _agent is None: _agent = AgentCore(...): the value of _agent after it.
ensure_instance(agent, created) == IF agent = 0 THEN created + 1 ELSE agent

EnsureAgentInit ==
    /\ ea_agent = 0
    /\ ea_tools_initialized = FALSE
    /\ ea_created = 0
    /\ ea_pc = [r \in Requests |-> "idle"]
    /\ ea_ret = [r \in Requests |-> 0]
    /\ ea_calls = 0

\* _ensure_agent up to its first await, or to its return when there is none.
EnsureAgentCall(r) ==
    LET agent == ensure_instance(ea_agent, ea_created)
    IN  /\ ea_pc[r] \in {"idle", "returned", "raised"}
        /\ ea_calls < MaxEnsureCalls
        /\ ea_calls' = ea_calls + 1
        /\ ea_agent' = agent
        /\ ea_created' = IF agent # ea_agent THEN ea_created + 1 ELSE ea_created
        /\ IF agent # ea_agent
           THEN /\ ea_pc' = [ea_pc EXCEPT ![r] = "initializing"]
                /\ ea_ret' = [ea_ret EXCEPT ![r] = 0]
           ELSE IF ~ea_tools_initialized
           THEN /\ ea_pc' = [ea_pc EXCEPT ![r] = "reinitializing"]
                /\ ea_ret' = [ea_ret EXCEPT ![r] = 0]
           ELSE /\ ea_pc' = [ea_pc EXCEPT ![r] = "returned"]
                /\ ea_ret' = [ea_ret EXCEPT ![r] = agent]
        /\ UNCHANGED ea_tools_initialized

\* await _agent.initialize_tools() ends, in either branch: it returns, the
\* flag is set and _agent is returned; or it raises and so does the call.
EnsureAgentResume(r, ok) ==
    /\ ea_pc[r] \in {"initializing", "reinitializing"}
    /\ IF ok
       THEN /\ ea_tools_initialized' = TRUE
            /\ ea_pc' = [ea_pc EXCEPT ![r] = "returned"]
            /\ ea_ret' = [ea_ret EXCEPT ![r] = ea_agent]
       ELSE /\ ea_pc' = [ea_pc EXCEPT ![r] = "raised"]
            /\ UNCHANGED <<ea_tools_initialized, ea_ret>>
    /\ UNCHANGED <<ea_agent, ea_created, ea_calls>>

-----------------------------------------------------------------------------
(* api.leer_consulta and errors.error_response *)

HTTP_400_BAD_REQUEST == 400
HTTP_500_INTERNAL_SERVER_ERROR == 500
HTTP_200_OK == 200

\* ERROR_DEFINITIONS, the codes the endpoint uses and the default.
ERROR_DEFINITIONS ==
    "AGT-400-01" :> [status |-> HTTP_400_BAD_REQUEST,
                     message |-> "The query field is required."] @@
    "AGT-500-01" :> [status |-> HTTP_500_INTERNAL_SERVER_ERROR,
                     message |-> "Internal server error. Please try again later."] @@
    "AGT-500-02" :> [status |-> HTTP_500_INTERNAL_SERVER_ERROR,
                     message |-> "MCP server connection failed"]

HttpResponse(status_code, content) == [status_code |-> status_code, content |-> content]

\* An error_response that answers every code with the default definition.
error_response_default(code, override_message) ==
    HttpResponse(ERROR_DEFINITIONS["AGT-500-01"].status,
                 [error |-> ERROR_DEFINITIONS["AGT-500-01"].message,
                  code |-> "AGT-500-01"])

\* error_response(code, override_message); "" is a falsy override.
error_response(code, override_message) ==
    LET definition == Get(ERROR_DEFINITIONS, code, ERROR_DEFINITIONS["AGT-500-01"])
        message == IF override_message # "" THEN override_message
                   ELSE definition.message
    IN  HttpResponse(definition.status, [error |-> message, code |-> code])

\* A request body: kind is "invalid" (request.json() raises), "array",
\* "string", or "object" with its keys and the value of 'consulta'.
Body(kind, keys, consulta) == [kind |-> kind, keys |-> keys, consulta |-> consulta]
NoBody == Body("invalid", {}, "")
Bodies ==
    {Body("invalid", {}, ""), Body("array", {}, ""), Body("string", {}, "")}
    \cup {Body("object", ks, "") : ks \in {{}, {"query"}}}
    \cup {Body("object", ks, c) : ks \in {{"consulta"}, {"consulta", "query"}},
                                  c \in {"hola", "", "null"}}

\* What awaiting client_main(consulta) does: it raises with a message, or
\* returns the result dictionary.
AgentRaises(msg) == [raises |-> TRUE, message |-> msg, result |-> <<>>]
AgentReturns(result) == [raises |-> FALSE, message |-> "", result |-> <<result>>]
AgentResults ==
    [status : {"ok"}, response : {"hola", "listo"}, tool_used : {"", "t1"}]
AgentOutcomes ==
    {AgentRaises(msg) : msg \in {"", "boom"}}
    \cup {AgentReturns(r) : r \in AgentResults}
NotCalled == [raises |-> FALSE, message |-> "not_called", result |-> <<>>]

HasConsulta(body) == body.kind = "object" /\ "consulta" \in body.keys

ApiInit ==
    /\ api_body = NoBody
    /\ api_agent = NotCalled
    /\ api_response = HttpResponse(0, <<>>)
    /\ api_served = 0

\* leer_consulta(request): outcome is used only when client_main is awaited.
leer_consulta(body, outcome) ==
    /\ api_served < MaxQueries
    /\ api_served' = api_served + 1
    /\ api_body' = body
    /\ IF ~HasConsulta(body)
       THEN /\ api_agent' = NotCalled
            /\ api_response' = error_response("AGT-400-01", "")
       ELSE /\ api_agent' = outcome
            /\ api_response' =
                  IF outcome.raises
                  THEN error_response("AGT-500-02", outcome.message)
                  ELSE HttpResponse(HTTP_200_OK, [data |-> outcome.result[1]])

-----------------------------------------------------------------------------
(* AgentCore._perform_reasoning: the semantic fallback *)

\* reasoning.min_coverage_for_execution, in hundredths.
min_coverage_for_execution == 100

\* An object-root schema whose inner object requires nothing.
RootSchemaOptional ==
    [required |-> <<"data">>,
     properties |->
        ("data" :> [type |-> "object",
                    required |-> <<>>,
                    properties |-> ("id" :> Leaf("integer"))])]

RankedTool(name, score) == [name |-> name, score |-> score]

\* extracted.get(root, {}) as a dict of items.
InnerVals(schema, extracted) ==
    Get(extracted, schema.required[1], DictVal(EmptyDict)).items

\* required_fields of the fallback.
RequiredFields(schema) ==
    IF IsObjectRoot(schema) THEN schema.properties[schema.required[1]].required
    ELSE schema.required

\* provided_fields: for an object root, keys inside the root object or flat.
ProvidedFields(schema, extracted) ==
    IF IsObjectRoot(schema)
    THEN SelectSeq(RequiredFields(schema),
                   LAMBDA k : k \in DOMAIN InnerVals(schema, extracted)
                              \/ k \in DOMAIN extracted)
    ELSE SelectSeq(schema.required, LAMBDA k : k \in DOMAIN extracted)

\* cov_ratio, in hundredths: 1.0 when nothing is required.
CovRatio(schema, extracted) ==
    IF RequiredFields(schema) = <<>> THEN 100
    ELSE (100 * Len(ProvidedFields(schema, extracted)))
            \div Len(RequiredFields(schema))

\* missing, as the clarification computes it.
MissingFields(schema, extracted) ==
    IF IsObjectRoot(schema)
    THEN SelectSeq(RequiredFields(schema),
                   LAMBDA f : f \notin DOMAIN InnerVals(schema, extracted))
    ELSE SelectSeq(schema.required, LAMBDA f : f \notin DOMAIN extracted)

FallbackResult(action, tool_name, arguments, missing) ==
    [action |-> action, tool_name |-> tool_name,
     arguments |-> arguments, missing |-> missing]
FallbackConversation == FallbackResult("conversation", "", EmptyDict, <<>>)

\* The fallback block: ranking is the list rank_tools returned (empty when
\* there is no selector or it raised), schema is get_tool_schema(top) or {},
\* extracted is extract_arguments(...) or {} ({} when it raised).
semantic_fallback(ranking, schema, extracted) ==
    IF ranking = <<>> THEN FallbackConversation
    ELSE LET top == ranking[1]
         IN  IF ~(top.name # "" /\ top.score >= direct_threshold)
             THEN FallbackConversation
             ELSE IF extracted # EmptyDict
                     /\ CovRatio(schema, extracted) >= min_coverage_for_execution
             THEN FallbackResult("tool_call", top.name, extracted, <<>>)
             ELSE FallbackResult("clarify", top.name, extracted,
                                 MissingFields(schema, extracted))

SemanticFallbackInit ==
    /\ sf_ranked = <<>>
    /\ sf_schema = EmptySchema
    /\ sf_extracted = EmptyDict
    /\ sf_result = FallbackConversation
    /\ sf_runs = 0

PerformReasoningFallback(ranking, schema, extracted) ==
    /\ sf_runs < MaxFallbacks
    /\ sf_runs' = sf_runs + 1
    /\ sf_ranked' = ranking
    /\ sf_schema' = schema
    /\ sf_extracted' = extracted
    /\ sf_result' = semantic_fallback(ranking, schema, extracted)

-----------------------------------------------------------------------------
(* ToolManager._validate_arguments and normalize_arguments, called directly *)

ArgumentsInit ==
    /\ va_schema = EmptySchema
    /\ va_arguments = EmptyDict
    /\ va_error = ""
    /\ va_normalized = EmptyDict
    /\ va_again = EmptyDict
    /\ va_done = "no"

\* _validate_arguments(tool_name, arguments) with schema registered for it.
ValidateArguments(schema, arguments) ==
    /\ va_done = "no"
    /\ va_done' = "validated"
    /\ va_schema' = schema
    /\ va_arguments' = arguments
    /\ va_error' = validate_arguments("t" :> schema, "t", arguments)
    /\ UNCHANGED <<va_normalized, va_again>>

\* normalize_arguments(schema, arguments), and once more on its result.
NormalizeArguments(schema, arguments) ==
    /\ va_done = "no"
    /\ va_done' = "normalized"
    /\ va_schema' = schema
    /\ va_arguments' = arguments
    /\ va_normalized' = normalize_arguments(schema, arguments)
    /\ va_again' = normalize_arguments(schema, normalize_arguments(schema, arguments))
    /\ UNCHANGED va_error

-----------------------------------------------------------------------------
(* server_mcp._http_request *)

\* How one `await client.request(...)` followed by raise_for_status() and
\* the decoding ends:
\*   "ok"            a 2xx response (its JSON, or its text when not JSON)
\*   "http_status"   raise_for_status() raises httpx.HTTPStatusError
\*   "request_error" httpx.RequestError (transport, timeout, decoding, ...)
\*   "other"         any other exception (httpx.InvalidURL, a RuntimeError of
\*                   a closed client, ...): no except clause matches it
RequestOutcomes == {"ok", "http_status", "request_error", "other"}

HttpResult(kind, st) == [kind |-> kind, status |-> st]
NoHttpResult == HttpResult("none", "")

HttpRequestInit ==
    /\ hr_pc = "idle"
    /\ hr_max_retries = 0
    /\ hr_attempt = 0
    /\ hr_idempotent = FALSE
    /\ hr_cached = FALSE
    /\ hr_outcomes = <<>>
    /\ hr_sleeps = 0
    /\ hr_result = NoHttpResult
    /\ hr_calls = 0

\* _http_request up to the loop; fresh says whether a cached entry is
\* younger than _IDEMPOTENCY_TTL_SECONDS.
HttpRequestBegin(method, has_json, max_retries, fresh) ==
    /\ hr_pc \in {"idle", "returned", "raised"}
    /\ hr_calls < MaxHttpCalls
    /\ hr_calls' = hr_calls + 1
    /\ hr_max_retries' = max_retries
    /\ hr_attempt' = 0
    /\ hr_outcomes' = <<>>
    /\ hr_sleeps' = 0
    /\ hr_idempotent' = (method = "POST" /\ has_json)
    /\ IF method = "POST" /\ has_json /\ hr_cached /\ fresh
       THEN /\ hr_result' = HttpResult("cached", "")
            /\ hr_pc' = "returned"
       ELSE /\ hr_result' = NoHttpResult
            /\ hr_pc' = "request"
    /\ UNCHANGED hr_cached

\* A retry policy that also retries after an HTTP error status.
RetriesAfterAnyError(outcome) == outcome \in {"request_error", "http_status"}

\* The except clause whose handler may `continue`.
Retries(outcome) == outcome = "request_error"

\* One iteration of the while loop.
HttpRequestAttempt(outcome) ==
    /\ hr_pc = "request"
    /\ hr_outcomes' = Append(hr_outcomes, outcome)
    /\ IF outcome = "ok"
       THEN /\ hr_result' = HttpResult("data", "")
            /\ hr_cached' = (hr_cached \/ hr_idempotent)
            /\ hr_pc' = "returned"
            /\ UNCHANGED <<hr_attempt, hr_sleeps>>
       ELSE IF Retries(outcome) /\ hr_attempt < hr_max_retries
       THEN /\ hr_attempt' = hr_attempt + 1
            /\ hr_sleeps' = hr_sleeps + 1
            /\ UNCHANGED <<hr_pc, hr_result, hr_cached>>
       ELSE IF outcome \in {"http_status", "request_error"}
       THEN /\ hr_result' = HttpResult("dict", "error")
            /\ hr_pc' = "returned"
            /\ UNCHANGED <<hr_attempt, hr_sleeps, hr_cached>>
       ELSE /\ hr_pc' = "raised"
            /\ UNCHANGED <<hr_attempt, hr_sleeps, hr_cached, hr_result>>
    /\ UNCHANGED <<hr_max_retries, hr_idempotent, hr_calls>>

-----------------------------------------------------------------------------
(* SemanticRegistry.register_tool and remove_tool *)

\* del seq[index], index counted from 1.
DelAt(seq, index) == SubSeq(seq, 1, index - 1) \o SubSeq(seq, index + 1, Len(seq))

\* tool_text: built from the name and the description.
ToolText(name, description) == <<name, description>>

SemanticRegistryInit ==
    /\ sr_tools = EmptyDict
    /\ sr_tool_names = <<>>
    /\ sr_tool_texts = <<>>
    /\ sr_ops = 0

\* register_tool(name, description, ...); raises says whether building the
\* text or the ToolDefinition raised (caught: nothing is changed, False).
SemanticRegisterTool(name, description, raises) ==
    /\ sr_ops < MaxRegistryOps
    /\ sr_ops' = sr_ops + 1
    /\ IF raises
       THEN UNCHANGED <<sr_tools, sr_tool_names, sr_tool_texts>>
       ELSE /\ sr_tools' = Put(sr_tools, name, ToolText(name, description))
            /\ sr_tool_texts' = Append(sr_tool_texts, ToolText(name, description))
            /\ sr_tool_names' = Append(sr_tool_names, name)

\* remove_tool(tool_name): the first index of the name is deleted.
SemanticRemoveTool(tool_name) ==
    /\ sr_ops < MaxRegistryOps
    /\ sr_ops' = sr_ops + 1
    /\ IF tool_name \in DOMAIN sr_tools
       THEN /\ sr_tools' = Pop(sr_tools, {tool_name})
            /\ IF FirstNamed(sr_tool_names, tool_name) # 0
               THEN /\ sr_tool_names' =
                          DelAt(sr_tool_names, FirstNamed(sr_tool_names, tool_name))
                    /\ sr_tool_texts' =
                          DelAt(sr_tool_texts, FirstNamed(sr_tool_names, tool_name))
               ELSE UNCHANGED <<sr_tool_names, sr_tool_texts>>
       ELSE UNCHANGED <<sr_tools, sr_tool_names, sr_tool_texts>>

-----------------------------------------------------------------------------
(* Inputs of the ToolManager specifications *)

\* The tools the agent loads: a handler and an optional schema per name.
Catalog ==
    "t_async" :> [handler |-> "async", schema |-> Some(FlatSchema)] @@
    "t_sync" :> [handler |-> "sync", schema |-> None] @@
    "t_coro" :> [handler |-> "sync_coro", schema |-> Some(FlatSchema)] @@
    "t_mcp" :> [handler |-> "mcp", schema |-> Some(RootSchema)]

CatalogOrder == <<"t_mcp", "t_sync", "t_async", "t_coro">>

\* Names execute_tool is called with: the catalog and a name never registered.
ExecNames == (DOMAIN Catalog) \cup {"t_unknown"}

\* Arguments execute_tool is called with.
ArgChoices ==
    { EmptyDict,
      "id" :> Val("int"),
      "id" :> Val("str"),
      "ID" :> Val("int"),
      "id" :> Val("int") @@ "avionId" :> Val("str"),
      "data" :> DictVal("id" :> Val("int") @@ "avionId" :> Val("str")) }

\* Names and schemas of the registry specification.
SchemaNames == {"t_async", "t_mcp"}
SchemaChoices == {None, Some(FlatSchema), Some(RootSchema)}

-----------------------------------------------------------------------------
(* Specifications *)

vars == <<coreVars, extVars>>

\* The components added to the core model, as constructed.
ExtInit ==
    /\ RankInit
    /\ McpInit
    /\ DepsInit
    /\ EnsureAgentInit
    /\ ApiInit
    /\ SemanticFallbackInit
    /\ ArgumentsInit
    /\ HttpRequestInit
    /\ SemanticRegistryInit

\* MemoryContext alone.
InitMemory ==
    /\ \E mm \in (0..MaxMaxMessages) \cup {DefaultMaxMessages} : MemoryContextInit(mm)
    /\ DecideInit
    /\ ToolManagerInit(default_max_retries, TRUE)
    /\ ExecuteInit
    /\ AgentInit
    /\ IntentInit([n \in IntentToolNames |-> "none"])
    /\ ExtInit

NextMemory == AddMessage /\ UNCHANGED <<decVars, tmVars, exVars, agVars, riVars, extVars>>

SpecMemory == InitMemory /\ [][NextMemory]_vars

\* SemanticSelector.decide alone.
InitDecide ==
    /\ MemoryContextInit(DefaultMaxMessages)
    /\ DecideInit
    /\ ToolManagerInit(default_max_retries, TRUE)
    /\ ExecuteInit
    /\ AgentInit
    /\ IntentInit([n \in IntentToolNames |-> "none"])
    /\ ExtInit

NextDecide == Decide /\ UNCHANGED <<memVars, tmVars, exVars, agVars, riVars, extVars>>

SpecDecide == InitDecide /\ [][NextDecide]_vars

\* ToolManager: the catalog is registered, then tools are executed.
InitTool ==
    /\ MemoryContextInit(DefaultMaxMessages)
    /\ DecideInit
    /\ \E mr \in 0..MaxMaxRetries, ev \in BOOLEAN : ToolManagerInit(mr, ev)
    /\ ExecuteInit
    /\ AgentInit
    /\ IntentInit([n \in IntentToolNames |-> "none"])
    /\ ExtInit

\* _load_tools_from_mcp registers the tools of the catalog in list order,
\* before any message is processed.
LoadTool ==
    /\ tm_calls = 0
    /\ Cardinality(DOMAIN registered_tools) < Len(CatalogOrder)
    /\ LET name == CatalogOrder[Cardinality(DOMAIN registered_tools) + 1]
       IN  RegisterTool(name, Catalog[name].handler, Catalog[name].schema)
    /\ UNCHANGED <<memVars, decVars, exVars, agVars, riVars, extVars>>

ExecuteTool ==
    /\ \E tool_name \in ExecNames, arguments \in ArgChoices :
          ExecuteToolBegin(tool_name, arguments)
    /\ UNCHANGED <<memVars, decVars, agVars, riVars, extVars>>

ExecuteToolRetryLoop == ExecuteToolAttempt /\ UNCHANGED <<memVars, decVars, agVars, riVars, extVars>>

NextTool == LoadTool \/ ExecuteTool \/ ExecuteToolRetryLoop

SpecTool == InitTool /\ [][NextTool]_vars

\* ToolManager registry: register_tool, unregister_tool, get_tool_schema.
InitSchema ==
    /\ MemoryContextInit(DefaultMaxMessages)
    /\ DecideInit
    /\ ToolManagerInit(default_max_retries, TRUE)
    /\ ExecuteInit
    /\ AgentInit
    /\ IntentInit([n \in IntentToolNames |-> "none"])
    /\ ExtInit

SchemaRegister ==
    /\ \E name \in SchemaNames, schema \in SchemaChoices :
          RegisterTool(name, "mcp", schema)
    /\ UNCHANGED <<memVars, decVars, exVars, agVars, riVars, extVars>>

SchemaUnregister ==
    /\ \E name \in SchemaNames : UnregisterTool(name)
    /\ UNCHANGED <<memVars, decVars, exVars, agVars, riVars, extVars>>

SchemaGet ==
    /\ \E name \in SchemaNames : GetToolSchema(name)
    /\ UNCHANGED <<memVars, decVars, exVars, agVars, riVars, extVars>>

NextSchema == SchemaRegister \/ SchemaUnregister \/ SchemaGet

SpecSchema == InitSchema /\ [][NextSchema]_vars

\* AgentCore.process_message, with the reasoning decisions, the tool
\* results and the exceptions as inputs.
InitAgent ==
    /\ MemoryContextInit(DefaultMaxMessages)
    /\ DecideInit
    /\ ToolManagerInit(default_max_retries, TRUE)
    /\ ExecuteInit
    /\ AgentInit
    /\ IntentInit([n \in IntentToolNames |-> "none"])
    /\ ExtInit

AgentBegin ==
    /\ \E fault \in BeginFaults : ProcessMessageBegin(fault)
    /\ UNCHANGED <<decVars, tmVars, exVars, riVars, extVars>>

AgentToolCall ==
    /\ \E fault \in ToolCallFaults, r \in ToolActionResponses : LoopToolCall(fault, r)
    /\ UNCHANGED <<decVars, tmVars, exVars, riVars, extVars>>

AgentAnswer ==
    /\ \E action \in ActionTypes \ {"tool_call"}, fault \in ActionFaults :
          LoopAnswer(action, fault)
    /\ UNCHANGED <<decVars, tmVars, exVars, riVars, extVars>>

AgentFinish ==
    /\ \E fault \in FinishFaults : ProcessMessageFinish(fault)
    /\ UNCHANGED <<decVars, tmVars, exVars, riVars, extVars>>

NextAgent == AgentBegin \/ AgentToolCall \/ AgentAnswer \/ AgentFinish

SpecAgent == InitAgent /\ [][NextAgent]_vars

\* ReasoningEngine.analyze_intent over its inputs.
InitIntent ==
    /\ MemoryContextInit(DefaultMaxMessages)
    /\ DecideInit
    /\ ToolManagerInit(default_max_retries, TRUE)
    /\ ExecuteInit
    /\ AgentInit
    /\ \E kinds \in SchemaKindMaps : IntentInit(kinds)
    /\ ExtInit

NextIntent == AnalyzeIntent /\ UNCHANGED <<memVars, decVars, tmVars, exVars, agVars, extVars>>

SpecIntent == InitIntent /\ [][NextIntent]_vars

\* SemanticSelector.rank_tools and rank_tools_with_fallback, frame by frame.
RankToolNames == {"a", "b"}
Rankings(tools) ==
    {<<>>} \cup {<<n>> : n \in tools}
           \cup {<<p[1], p[2]>> : p \in {q \in tools \X tools : q[1] # q[2]}}

InitRank ==
    /\ MemoryContextInit(DefaultMaxMessages)
    /\ DecideInit
    /\ ToolManagerInit(default_max_retries, TRUE)
    /\ ExecuteInit
    /\ AgentInit
    /\ IntentInit([n \in IntentToolNames |-> "none"])
    /\ ExtInit

RankBegin ==
    /\ \E fn \in RankMethods, initialized \in BOOLEAN, query \in {"", "q"},
          tools \in SUBSET RankToolNames :
          \E semantic \in Rankings(tools), tfidf \in Rankings(tools) :
              RankCall(fn, initialized, query, tools, semantic, tfidf)
    /\ UNCHANGED rkOthers

RankTools == RankToolsBody /\ UNCHANGED rkOthers

RankFallback == RankFallbackBody /\ UNCHANGED rkOthers

RankReturn == RankResume /\ UNCHANGED rkOthers

NextRank == RankBegin \/ RankTools \/ RankFallback \/ RankReturn

SpecRank == InitRank /\ [][NextRank]_vars

\* ToolManager.execute_tool of one tool, for the waits between its attempts.
InitBackoff ==
    /\ MemoryContextInit(DefaultMaxMessages)
    /\ DecideInit
    /\ \E mr \in 0..MaxBackoffRetries : ToolManagerInit(mr, TRUE)
    /\ ExecuteInit
    /\ AgentInit
    /\ IntentInit([n \in IntentToolNames |-> "none"])
    /\ ExtInit

BackoffExecute ==
    /\ \E tool_name \in {"t_async", "t_mcp"} :
          ExecuteToolBegin(tool_name, "id" :> Val("int"))
    /\ UNCHANGED <<memVars, decVars, agVars, riVars, extVars>>

NextBackoff == LoadTool \/ BackoffExecute \/ ExecuteToolRetryLoop

SpecBackoff == InitBackoff /\ [][NextBackoff]_vars

\* MCPClient.get_available_tools, attempt by attempt.
InitMcp ==
    /\ MemoryContextInit(DefaultMaxMessages)
    /\ DecideInit
    /\ ToolManagerInit(default_max_retries, TRUE)
    /\ ExecuteInit
    /\ AgentInit
    /\ IntentInit([n \in IntentToolNames |-> "none"])
    /\ ExtInit

McpBegin == GetAvailableToolsBegin /\ UNCHANGED mcOthers

McpAttempt ==
    /\ \E e \in AttemptEnds : GetAvailableToolsAttempt(e)
    /\ UNCHANGED mcOthers

NextMcp == McpBegin \/ McpAttempt

SpecMcp == InitMcp /\ [][NextMcp]_vars

\* One TOOL_CALL iteration of process_message: the dependencies run as
\* concurrent tasks, then the selected tool.
DepNames == {"d1", "d2", "d3"}

InitDeps ==
    /\ MemoryContextInit(DefaultMaxMessages)
    /\ DecideInit
    /\ ToolManagerInit(default_max_retries, TRUE)
    /\ ExecuteInit
    /\ AgentInit
    /\ IntentInit([n \in IntentToolNames |-> "none"])
    /\ ExtInit

DepsBegin ==
    /\ \E listed \in SUBSET DepNames, registered \in SUBSET DepNames :
          ExecuteDependenciesBegin(listed, registered)
    /\ UNCHANGED dpOthers

DepStart ==
    /\ \E d \in DepNames : DependencyStarts(d)
    /\ UNCHANGED dpOthers

DepFinish ==
    /\ \E d \in DepNames, st \in DepStatuses : DependencyFinishes(d, st)
    /\ UNCHANGED dpOthers

DepsReturn == ExecuteDependenciesReturn /\ UNCHANGED dpOthers

ToolStart == ToolActionStarts /\ UNCHANGED dpOthers

ToolReturn == ToolActionReturns /\ UNCHANGED dpOthers

NextDeps == DepsBegin \/ DepStart \/ DepFinish \/ DepsReturn \/ ToolStart \/ ToolReturn

SpecDeps == InitDeps /\ [][NextDeps]_vars

\* Concurrent /query requests through _ensure_agent.
InitEnsure ==
    /\ MemoryContextInit(DefaultMaxMessages)
    /\ DecideInit
    /\ ToolManagerInit(default_max_retries, TRUE)
    /\ ExecuteInit
    /\ AgentInit
    /\ IntentInit([n \in IntentToolNames |-> "none"])
    /\ ExtInit

EnsureCall ==
    /\ \E r \in Requests : EnsureAgentCall(r)
    /\ UNCHANGED eaOthers

EnsureResume ==
    /\ \E r \in Requests, ok \in BOOLEAN : EnsureAgentResume(r, ok)
    /\ UNCHANGED eaOthers

NextEnsure == EnsureCall \/ EnsureResume

SpecEnsure == InitEnsure /\ [][NextEnsure]_vars

\* POST /query over request bodies and agent outcomes.
InitApi ==
    /\ MemoryContextInit(DefaultMaxMessages)
    /\ DecideInit
    /\ ToolManagerInit(default_max_retries, TRUE)
    /\ ExecuteInit
    /\ AgentInit
    /\ IntentInit([n \in IntentToolNames |-> "none"])
    /\ ExtInit

PostQuery ==
    /\ \E body \in Bodies, outcome \in AgentOutcomes : leer_consulta(body, outcome)
    /\ UNCHANGED apiOthers

NextApi == PostQuery

SpecApi == InitApi /\ [][NextApi]_vars

\* The semantic fallback over rankings, schemas and extractions.
FallbackRankings ==
    {<<>>} \cup {<<RankedTool(n, s)>> : n \in {"", "t_async", "t_mcp"}, s \in {65, 70, 85}}
FallbackSchemas == {EmptySchema, FlatSchema, RootSchema, RootSchemaOptional}
FallbackExtractions ==
    { EmptyDict,
      "id" :> Val("int"),
      "id" :> Val("int") @@ "modelo" :> Val("str"),
      "id" :> Val("int") @@ "avionId" :> Val("str"),
      "data" :> DictVal(EmptyDict),
      "data" :> DictVal("id" :> Val("int")),
      "data" :> DictVal("id" :> Val("int") @@ "avionId" :> Val("str")) }

InitFallback ==
    /\ MemoryContextInit(DefaultMaxMessages)
    /\ DecideInit
    /\ ToolManagerInit(default_max_retries, TRUE)
    /\ ExecuteInit
    /\ AgentInit
    /\ IntentInit([n \in IntentToolNames |-> "none"])
    /\ ExtInit

ReasoningFallback ==
    /\ \E ranking \in FallbackRankings, schema \in FallbackSchemas,
          extracted \in FallbackExtractions :
            PerformReasoningFallback(ranking, schema, extracted)
    /\ UNCHANGED sfOthers

NextFallback == ReasoningFallback

SpecFallback == InitFallback /\ [][NextFallback]_vars

\* Validation and normalisation over schemas and argument dictionaries.
ArgumentSchemas == {EmptySchema, FlatSchema, RootSchema, RootSchemaOptional}

\* Dictionaries with at most one spelling of each key.
ArgumentDicts ==
    LET ids == {EmptyDict, "id" :> Val("int"), "id" :> Val("str"), "ID" :> Val("int")}
        avs == {EmptyDict, "avionId" :> Val("str")}
        mods == {EmptyDict, "modelo" :> Val("str")}
        roots == {EmptyDict, "data" :> DictVal(EmptyDict),
                  "data" :> DictVal("id" :> Val("int")), "data" :> Val("str")}
    IN  {a @@ b @@ c @@ d : a \in ids, b \in avs, c \in mods, d \in roots}

InitArguments ==
    /\ MemoryContextInit(DefaultMaxMessages)
    /\ DecideInit
    /\ ToolManagerInit(default_max_retries, TRUE)
    /\ ExecuteInit
    /\ AgentInit
    /\ IntentInit([n \in IntentToolNames |-> "none"])
    /\ ExtInit

Validate ==
    /\ \E schema \in ArgumentSchemas, arguments \in ArgumentDicts :
          ValidateArguments(schema, arguments)
    /\ UNCHANGED vaOthers

Normalize ==
    /\ \E schema \in ArgumentSchemas, arguments \in ArgumentDicts :
          NormalizeArguments(schema, arguments)
    /\ UNCHANGED vaOthers

NextArguments == Validate \/ Normalize

SpecArguments == InitArguments /\ [][NextArguments]_vars

\* _http_request over methods, retry limits and request outcomes.
InitHttp ==
    /\ MemoryContextInit(DefaultMaxMessages)
    /\ DecideInit
    /\ ToolManagerInit(default_max_retries, TRUE)
    /\ ExecuteInit
    /\ AgentInit
    /\ IntentInit([n \in IntentToolNames |-> "none"])
    /\ ExtInit

HttpBegin ==
    /\ \E method \in {"GET", "POST"}, has_json \in BOOLEAN,
          max_retries \in 0..MaxHttpRetries, fresh \in BOOLEAN :
            HttpRequestBegin(method, has_json, max_retries, fresh)
    /\ UNCHANGED hrOthers

HttpAttempt ==
    /\ \E outcome \in RequestOutcomes : HttpRequestAttempt(outcome)
    /\ UNCHANGED hrOthers

NextHttp == HttpBegin \/ HttpAttempt

SpecHttp == InitHttp /\ [][NextHttp]_vars

\* The semantic registry over registrations and removals.
RegistryNames == {"t_async", "t_mcp"}
RegistryDescriptions == {"d1", "d2"}

InitRegistry ==
    /\ MemoryContextInit(DefaultMaxMessages)
    /\ DecideInit
    /\ ToolManagerInit(default_max_retries, TRUE)
    /\ ExecuteInit
    /\ AgentInit
    /\ IntentInit([n \in IntentToolNames |-> "none"])
    /\ ExtInit

RegistryRegister ==
    /\ \E name \in RegistryNames, description \in RegistryDescriptions,
          raises \in BOOLEAN :
            SemanticRegisterTool(name, description, raises)
    /\ UNCHANGED srOthers

RegistryRemove ==
    /\ \E name \in RegistryNames : SemanticRemoveTool(name)
    /\ UNCHANGED srOthers

NextRegistry == RegistryRegister \/ RegistryRemove

SpecRegistry == InitRegistry /\ [][NextRegistry]_vars

-----------------------------------------------------------------------------
(* C1: process_message runs its reasoning loop at most 10 times per user
   message: whatever the reasoning decides, TOOL_CALL on every iteration
   included, it performs at most 10 tool actions, then leaves the loop and
   returns an AgentResponse. *)
C1_LoopBounded ==
    /\ ag_iterations <= max_loop_iterations
    /\ tool_exec_count <= max_loop_iterations
    /\ loop_counter <= max_loop_iterations
    /\ ag_pc \in {"loop", "finish"} => ENABLED AgentFinish \/ ENABLED AgentAnswer
    /\ (ag_pc = "loop" /\ loop_counter = max_loop_iterations) => ~ENABLED AgentToolCall
    /\ ag_pc = "returned" => ag_return.action_taken # "none"

\* TOOL_CALL on all ten iterations, then the return of the last tool response.
C1_Witness ==
    /\ ag_pc = "returned"
    /\ tool_exec_count = max_loop_iterations
    /\ ag_iterations = max_loop_iterations
    /\ ag_return.action_taken = "tool_execution"

-----------------------------------------------------------------------------
(* Shorthands for the claims about one execute_tool call *)

Returned == ex_pc = "returned"
ToolRegistered == ex_tool \in DOMAIN registered_tools
ReachedHandler == ex_invocations > 0
StatsBefore == ex_stats_before[ex_tool]
StatsAfter == execution_stats[ex_tool]

-----------------------------------------------------------------------------
(* C2: for a registered tool whose arguments pass validation, execute_tool
   calls the handler, synchronous or asynchronous, at most max_retries + 1
   times, calls it no more once an attempt has returned without raising or
   timing out (one call per attempt, and a returning attempt is the last),
   and always returns an ExecutionResult. *)
C2_AtMostOneCallPerAttempt ==
    /\ ex_invocations <= tm_max_retries + 1
    /\ ex_invocations <= Len(ex_log)
    /\ \A i \in DOMAIN ex_log :
          ex_log[i] \in {"return", "ok", "tool_error", "transport_error"}
              => i = Len(ex_log) /\ Returned
    /\ Returned => ex_result.status # "none"

-----------------------------------------------------------------------------
(* C3: when execute_tool is called with a name that is not registered, or,
   with validation enabled, with arguments that fail validation against the
   tool's schema (the arguments as normalize_arguments left them), the
   handler is never called, the status is NOT_FOUND or VALIDATION_ERROR
   respectively, and execution_stats are unchanged. *)
C3_RejectedBeforeHandler ==
    Returned =>
        /\ ~ToolRegistered =>
              /\ ex_result.status = "not_found"
              /\ ex_invocations = 0
              /\ execution_stats = ex_stats_before
        /\ ( /\ ToolRegistered
             /\ enable_validation
             /\ ex_tool \in DOMAIN tool_schemas
             /\ ValidateAgainst(tool_schemas[ex_tool], ex_args) # "" ) =>
              /\ ex_result.status = "validation_error"
              /\ ex_invocations = 0
              /\ execution_stats = ex_stats_before

\* A registered tool rejected by validation, after an earlier call has
\* already counted in the statistics.
C3_Witness ==
    /\ Returned
    /\ ToolRegistered
    /\ ex_result.status = "validation_error"
    /\ \E n \in DOMAIN execution_stats : execution_stats[n].total_executions > 0

-----------------------------------------------------------------------------
(* C4: every execute_tool call that reaches the handler increases the
   tool's total_executions by exactly one and exactly one of
   successful_executions and failed_executions by one; a call that returns
   ERROR or TIMEOUT is never counted in successful_executions. *)
C4_CountedExactlyOnce ==
    (Returned /\ ReachedHandler) =>
        /\ StatsAfter.total_executions = StatsBefore.total_executions + 1
        /\ \/ /\ StatsAfter.successful_executions = StatsBefore.successful_executions + 1
              /\ StatsAfter.failed_executions = StatsBefore.failed_executions
           \/ /\ StatsAfter.successful_executions = StatsBefore.successful_executions
              /\ StatsAfter.failed_executions = StatsBefore.failed_executions + 1
        /\ ex_result.status \in {"error", "timeout"} =>
              StatsAfter.successful_executions = StatsBefore.successful_executions

-----------------------------------------------------------------------------
(* C5: when the handler of a remote (MCP) tool fails with a transport error
   while calling the MCP server, execute_tool retries the call, up to
   max_retries more attempts, before it reports an error result: an error
   result after a transport error comes only with the last permitted
   attempt. *)
C5_TransportErrorRetried ==
    ( /\ Returned
      /\ ToolRegistered
      /\ ex_log # <<>>
      /\ ex_log[Len(ex_log)] = "transport_error" ) =>
        /\ ex_result.status = "error"
        /\ Len(ex_log) = tm_max_retries + 1

-----------------------------------------------------------------------------
(* C6: after any sequence of add_message calls, for every max_messages >= 0,
   the memory holds at most max_messages messages and they are the most
   recently added ones, in insertion order. *)
C6_MemoryBounded ==
    /\ Len(messages) <= max_messages
    /\ messages = MostRecent(added, max_messages)

-----------------------------------------------------------------------------
(* C7 (as claimed): decide maps the best score to 'direct' when score >=
   direct_threshold, 'confirm' when confirm_threshold <= score <
   direct_threshold, 'conversation' below confirm_threshold, and returns
   'conversation' and no tool for an empty list. *)
C7_DecideAsDocumented ==
    decision # "none" =>
        /\ decision = decide_thresholds_only(ranked).decision
        /\ best = decide_thresholds_only(ranked).best

\* The gap between the best and the second candidate (the best score itself
\* when it is the only one).
C7_Gap == ranked[1] - (IF Len(ranked) > 1 THEN ranked[2] ELSE 0)

(* C7 (amended): the route is 'direct' exactly when score >= direct_threshold
   and the gap to the second candidate is at least min_score_gap_direct;
   'confirm' exactly when score >= confirm_threshold, the route is not
   'direct' and the gap is at least min_score_gap_confirm; 'conversation'
   otherwise; an empty list gives 'conversation' and no tool, a non-empty
   one returns its first candidate. *)
C7_DecideWithGap ==
    decision # "none" =>
        IF ranked = <<>> THEN decision = "conversation" /\ best = 0
        ELSE /\ best = 1
             /\ decision \in {"direct", "confirm", "conversation"}
             /\ (decision = "direct") <=>
                    (ranked[1] >= direct_threshold /\ C7_Gap >= min_score_gap_direct)
             /\ (decision = "confirm") <=>
                    (/\ ranked[1] >= confirm_threshold
                     /\ ~(ranked[1] >= direct_threshold /\ C7_Gap >= min_score_gap_direct)
                     /\ C7_Gap >= min_score_gap_confirm)

\* A best score above direct_threshold that is not routed 'direct'.
C7_Witness ==
    /\ decision = "conversation"
    /\ Len(ranked) = 2
    /\ ranked[1] >= direct_threshold

-----------------------------------------------------------------------------
(* C8: analyze_intent decides among three actions: each of TOOL_CALL,
   CONVERSATION and CLARIFY is its result for some LLM response and tool
   catalog, and it returns no other action. *)
C8_ThreeWayDecision ==
    /\ ri_seen \subseteq ActionTypes
    /\ \A a \in ActionTypes :
          \E kinds \in SchemaKindMaps, c \in IntentCalls :
              analyze_intent(c.llm, c.tools, kinds, c.extract).action = a

\* What the code does instead: CLARIFY is never the result.
C8_NeverClarify ==
    /\ ri_seen \subseteq {"tool_call", "conversation"}
    /\ ri_result.action \in {"none", "tool_call", "conversation"}

-----------------------------------------------------------------------------
(* C9: process_message never propagates an exception: an exception raised
   while processing gives an AgentResponse with action_taken 'error', sets
   the status to ERROR and adds one to messages_processed and to errors; a
   normal return adds one to messages_processed and leaves errors alone. *)
C9_ErrorAccounting ==
    ag_pc = "returned" =>
        /\ ag_return.action_taken # "none"
        /\ session_stats.messages_processed = ag_stats_before.messages_processed + 1
        /\ IF ag_raised
           THEN /\ ag_return.action_taken = "error"
                /\ status = "error"
                /\ session_stats.errors = ag_stats_before.errors + 1
           ELSE /\ status = "idle"
                /\ session_stats.errors = ag_stats_before.errors

\* An exception after a tool ran, in a session that has already returned
\* normally once.
C9_Witness ==
    /\ ag_pc = "returned"
    /\ ag_raised
    /\ tool_exec_count > 0
    /\ session_stats.messages_processed = 2
    /\ session_stats.errors = 1

-----------------------------------------------------------------------------
(* C10: after any sequence of register_tool, unregister_tool and
   get_tool_schema calls, get_tool_schema(name) returns the schema currently
   registered for name, tool_schemas.get(name), and None when name has no
   registered schema. *)
C10_SchemaIsCurrent ==
    gs_name # "none" => gs_result = SchemaOf(tool_schemas, gs_name)

-----------------------------------------------------------------------------
(* C11: rank_tools and rank_tools_with_fallback terminate for every query
   and registry, and when the selector is not initialized or the query
   embedding cannot be generated, rank_tools returns the TF-IDF fallback
   ranking of the registry: no call ends in an exception, and a returned
   rank_tools call that met one of the two conditions returns rk_tfidf. *)
C11_TerminatesWithFallback ==
    /\ rk_pc # "raised"
    /\ ( /\ rk_pc = "returned"
         /\ rk_entry = "rank_tools"
         /\ rk_query # "" /\ rk_tools # {}
         /\ (~rk_initialized \/ rk_embed_failed) ) => rk_result = rk_tfidf

\* What the code does instead: once the selector is not initialized, a call
\* with a query and a non-empty registry never returns.
C11_UninitializedNeverReturns ==
    (rk_pc = "returned" /\ rk_query # "" /\ rk_tools # {}) => rk_initialized

-----------------------------------------------------------------------------
(* C12: the wait execute_tool inserts between consecutive failed attempts is
   an exponential backoff: for any max_retries, each wait is twice the
   previous one. *)
C12_WaitsDouble ==
    \A i \in 2..Len(ex_sleeps) : ex_sleeps[i] = 2 * ex_sleeps[i - 1]

\* What the code does instead: the i-th wait is i times 0.5 s.
C12_WaitsLinear ==
    \A i \in DOMAIN ex_sleeps : ex_sleeps[i] = i

-----------------------------------------------------------------------------
(* C17: execute_tool returns TIMEOUT exactly when the final, max_retries+1-th
   attempt timed out, and ERROR when the final attempt raised another
   exception, however the earlier attempts failed; retry_count is the number
   of failed attempts before the returning attempt and 0 <= retry_count <=
   max_retries. *)
C17_FinalAttemptDecides ==
    (Returned /\ ReachedHandler) =>
        LET last == ex_log[Len(ex_log)]
        IN  /\ (ex_result.status = "timeout") <=>
                   (last = "timeout" /\ Len(ex_log) = tm_max_retries + 1)
            /\ last = "raise" =>
                   (ex_result.status = "error" /\ Len(ex_log) = tm_max_retries + 1)
            /\ ex_result.retry_count = Len(ex_log) - 1
            /\ \A i \in 1..(Len(ex_log) - 1) : ex_log[i] \in {"timeout", "raise"}
            /\ 0 <= ex_result.retry_count
            /\ ex_result.retry_count <= tm_max_retries

\* A timeout on the first attempt, an exception on the last one: ERROR; and
\* the other way round in the same state space is TIMEOUT.
C17_Witness ==
    /\ Returned
    /\ tm_max_retries = 2
    /\ ex_log = <<"timeout", "raise", "timeout">>
    /\ ex_result = ExecutionResult("timeout", 2)

-----------------------------------------------------------------------------
(* C13: get_available_tools makes at most 3 connection attempts, waits
   base_delay * 2^attempt seconds (2, then 4) between consecutive attempts,
   returns the tool list of the first attempt that succeeds, and returns an
   empty list, without raising, when all three attempts fail or time out. *)
C13_ThreeAttemptsWithBackoff ==
    LET failed == {i \in DOMAIN mc_log : mc_log[i].end # "listed"}
    IN  /\ Len(mc_log) <= 3
        /\ Len(mc_delays) <= 2
        /\ \A i \in DOMAIN mc_delays :
              mc_delays[i] = (IF i = 1 THEN 2 ELSE 4)
        /\ mc_pc = "attempt" =>
              /\ failed = DOMAIN mc_log
              /\ Len(mc_delays) = Len(mc_log)
        /\ mc_pc = "returned" =>
              \/ /\ mc_log[Len(mc_log)].end = "listed"
                 /\ failed = 1..(Len(mc_log) - 1)
                 /\ mc_result = mc_log[Len(mc_log)].tools
                 /\ Len(mc_delays) = Len(mc_log) - 1
              \/ /\ Len(mc_log) = 3
                 /\ failed = 1..3
                 /\ mc_result = <<>>
                 /\ Len(mc_delays) = 2

\* Two failures, waits of 2 and 4 seconds, then the third attempt lists.
C13_Witness ==
    /\ mc_pc = "returned"
    /\ Len(mc_log) = 3
    /\ mc_log[1].end = "timeout"
    /\ mc_log[2].end = "raised"
    /\ mc_delays = <<2, 4>>
    /\ mc_result = <<"a", "b">>

-----------------------------------------------------------------------------
(* C14: before the tool selected by reasoning is executed, every registered
   dependency listed for it in dependency_map is executed, with empty
   arguments, and all of them have completed, successfully or not, before
   the selected tool's handler starts; a failing dependency never prevents
   the selected tool from executing. *)
C14_DependenciesCompleteFirst ==
    /\ DOMAIN dp_tasks = dp_listed \cap dp_registered
    /\ \A d \in DOMAIN dp_args : dp_args[d] = EmptyDict
    /\ dp_pc \in {"tool", "done"} =>
          /\ DOMAIN dp_snapshot = dp_listed \cap dp_registered
          /\ \A d \in DOMAIN dp_snapshot : dp_snapshot[d] \in DepStatuses
    /\ (dp_pc = "gather" /\ \A d \in DOMAIN dp_tasks : dp_tasks[d] \in DepStatuses) =>
          ENABLED DepsReturn
    /\ dp_pc = "gathered" => ENABLED ToolStart

\* The selected tool ran after three dependencies, two of which failed.
C14_Witness ==
    /\ dp_pc = "done"
    /\ dp_snapshot = ("d1" :> "error" @@ "d2" :> "success" @@ "d3" :> "timeout")

-----------------------------------------------------------------------------
(* C15: across any interleaving of concurrent _ensure_agent calls, at most
   one AgentCore instance is ever created and every caller that returns
   receives that same instance. *)
C15_SingleAgent ==
    /\ ea_created <= 1
    /\ \A r \in Requests :
          ea_pc[r] = "returned" => (ea_ret[r] = 1 /\ ea_ret[r] = ea_agent)

\* Three requests overlap: one created the agent and failed to initialize
\* it, the other two returned.
C15_Witness ==
    /\ ea_pc["r1"] = "raised"
    /\ ea_pc["r2"] = "returned"
    /\ ea_pc["r3"] = "returned"
    /\ ea_created = 1

-----------------------------------------------------------------------------
(* C16: POST /query answers AGT-400-01 with HTTP 400 whenever the body is
   not a JSON object with the key 'consulta', AGT-500-02 with HTTP 500
   whenever the agent call raises, and otherwise the agent's result,
   unmodified, under the key 'data'. *)
C16_QueryResponses ==
    api_served > 0 =>
        IF ~(api_body.kind = "object" /\ "consulta" \in api_body.keys)
        THEN /\ api_response.status_code = 400
             /\ api_response.content.code = "AGT-400-01"
             /\ api_agent = NotCalled
        ELSE IF api_agent.raises
        THEN /\ api_response.status_code = 500
             /\ api_response.content.code = "AGT-500-02"
        ELSE /\ api_response.status_code = 200
             /\ api_response.content = [data |-> api_agent.result[1]]

\* On the second request the agent raised with an empty message: the answer
\* is AGT-500-02 with the definition's message.
C16_Witness ==
    /\ api_served = 2
    /\ api_agent = AgentRaises("")
    /\ api_response.status_code = 500
    /\ api_response.content.error = "MCP server connection failed"

-----------------------------------------------------------------------------
(* C18: the semantic fallback answers TOOL_CALL when every required field
   has been extracted and CLARIFY only when a required field is missing; a
   tool without required fields is executed, not clarified. *)
C18_AllRequired ==
    \A i \in DOMAIN RequiredFields(sf_schema) :
        \/ RequiredFields(sf_schema)[i] \in DOMAIN sf_extracted
        \/ /\ IsObjectRoot(sf_schema)
           /\ RequiredFields(sf_schema)[i] \in DOMAIN InnerVals(sf_schema, sf_extracted)

C18_ToolCallOrClarify ==
    (sf_runs > 0 /\ sf_result.action \in {"tool_call", "clarify"}) =>
        /\ C18_AllRequired => sf_result.action = "tool_call"
        /\ sf_result.action = "clarify" => ~C18_AllRequired

\* What the code guarantees: the claim holds whenever the extraction is not
\* empty, and an empty extraction is always clarified.
C18_ToolCallWhenExtracted ==
    (sf_runs > 0 /\ sf_result.action \in {"tool_call", "clarify"}) =>
        IF sf_extracted = EmptyDict THEN sf_result.action = "clarify"
        ELSE /\ C18_AllRequired => sf_result.action = "tool_call"
             /\ sf_result.action = "clarify" => ~C18_AllRequired

-----------------------------------------------------------------------------
(* C19: _validate_arguments returns an error message whenever a field of the
   schema's top-level required list is absent from the arguments, for flat
   and object-root schemas alike. *)
C19_MissingRequiredIsError ==
    (va_done = "validated"
     /\ \E i \in DOMAIN va_schema.required : va_schema.required[i] \notin DOMAIN va_arguments)
        => va_error # ""

\* What the code guarantees: an absent required field is an error unless
\* the schema is an object root whose inner object requires nothing.
C19_MissingRequiredUnlessOptionalRoot ==
    (va_done = "validated"
     /\ \E i \in DOMAIN va_schema.required : va_schema.required[i] \notin DOMAIN va_arguments)
        => (va_error = "" <=>
              /\ IsObjectRoot(va_schema)
              /\ va_schema.properties[va_schema.required[1]].required = <<>>)

-----------------------------------------------------------------------------
(* C20: for an object-root schema and arguments without the root key,
   normalize_arguments moves every flat argument that matches an inner
   property name, exactly or through a case or format variant, under the
   root key, and no moved argument stays at the top level; the arguments
   are unchanged when the root key is present or the schema is flat; and
   the operation is idempotent. *)
C20_Matches(a, k) == Lower(a) \in SeqToSet(key_variants(k))

C20_InnerKeys ==
    LET root_prop == va_schema.properties[va_schema.required[1]]
    IN  SeqToSet(root_prop.required) \cup DOMAIN root_prop.properties

C20_NormalizeMoves ==
    va_done = "normalized" =>
        /\ va_again = va_normalized
        /\ IF IsObjectRoot(va_schema) /\ va_schema.required[1] \notin DOMAIN va_arguments
           THEN \A k \in C20_InnerKeys, a \in DOMAIN va_arguments :
                    C20_Matches(a, k) =>
                        /\ va_schema.required[1] \in DOMAIN va_normalized
                        /\ k \in DOMAIN va_normalized[va_schema.required[1]].items
                        /\ a \notin DOMAIN va_normalized
           ELSE va_normalized = va_arguments

\* What the code guarantees: the same, except that only an argument spelt
\* exactly as the property leaves the top level.
C20_NormalizeMovesExactKeys ==
    va_done = "normalized" =>
        /\ va_again = va_normalized
        /\ IF IsObjectRoot(va_schema) /\ va_schema.required[1] \notin DOMAIN va_arguments
           THEN \A k \in C20_InnerKeys, a \in DOMAIN va_arguments :
                    C20_Matches(a, k) =>
                        /\ va_schema.required[1] \in DOMAIN va_normalized
                        /\ k \in DOMAIN va_normalized[va_schema.required[1]].items
                        /\ (a \notin DOMAIN va_normalized <=> a = k)
           ELSE va_normalized = va_arguments

-----------------------------------------------------------------------------
(* C21: a process_message call that returns normally has appended to the
   memory, in this order, one USER message with the user's text, one USER
   message with the tool result for each tool execution of the loop, and
   exactly one ASSISTANT message with the final response; a call that went
   through the except branch has appended no ASSISTANT message. *)
C21_Appended == SubSeq(added, ag_added_before + 1, Len(added))

C21_MemoryAppends ==
    ag_pc = "returned" =>
        IF ~ag_raised
        THEN /\ Len(C21_Appended) = tool_exec_count + 2
             /\ C21_Appended[1] = [role |-> "user", content |-> "text"]
             /\ \A i \in 2..(tool_exec_count + 1) :
                    C21_Appended[i] = [role |-> "user", content |-> "tool_result"]
             /\ C21_Appended[tool_exec_count + 2] =
                    [role |-> "assistant", content |-> ag_return.action_taken]
        ELSE \A i \in DOMAIN C21_Appended : C21_Appended[i].role # "assistant"

\* A second call returned normally after two tool executions.
C21_Witness ==
    /\ ag_pc = "returned"
    /\ ~ag_raised
    /\ ag_added_before > 0
    /\ tool_exec_count = 2
    /\ Len(added) = ag_added_before + 4

-----------------------------------------------------------------------------
(* C22: _http_request issues at most HTTP_MAX_RETRIES + 1 requests per
   call, retries only after a connection-level request error and never
   after an HTTP error status, and always returns a value (the decoded
   response or a dict with status 'error') instead of raising. *)
C22_BoundedRetries ==
    /\ Len(hr_outcomes) <= hr_max_retries + 1
    /\ hr_sleeps <= hr_max_retries
    /\ \A i \in DOMAIN hr_outcomes :
          (i < Len(hr_outcomes) \/ hr_pc = "request") => hr_outcomes[i] = "request_error"

C22_AlwaysReturns ==
    /\ C22_BoundedRetries
    /\ hr_pc # "raised"
    /\ hr_pc = "returned" => hr_result.kind \in {"data", "cached", "dict"}

\* What the code guarantees: the bound and the retry rule, and a returned
\* value exactly when no request ended in an exception other than the two
\* the loop handles.
C22_ReturnsUnlessOtherException ==
    /\ C22_BoundedRetries
    /\ hr_pc = "raised" <=>
          (hr_outcomes # <<>> /\ hr_outcomes[Len(hr_outcomes)] = "other")
    /\ hr_pc = "returned" => hr_result.kind \in {"data", "cached", "dict"}

-----------------------------------------------------------------------------
(* C23: after any sequence of register_tool and remove_tool calls, also
   when a registered name is registered again, _tool_names has no
   duplicates, has the length of _tool_texts, and holds exactly the keys
   of tools. *)
C23_IndexAligned ==
    /\ \A i, j \in DOMAIN sr_tool_names :
          sr_tool_names[i] = sr_tool_names[j] => i = j
    /\ Len(sr_tool_names) = Len(sr_tool_texts)
    /\ SeqToSet(sr_tool_names) = DOMAIN sr_tools

\* What the code guarantees: equal lengths, each text at the index of its
\* name, and every key of tools among the names.
C23_IndexCoversCatalog ==
    /\ Len(sr_tool_names) = Len(sr_tool_texts)
    /\ \A i \in DOMAIN sr_tool_names : sr_tool_texts[i][1] = sr_tool_names[i]
    /\ DOMAIN sr_tools \subseteq SeqToSet(sr_tool_names)

====
